---- MODULE Spec2Model ----
(***************************************************************************)
(* Ranch bot (src/index.js): message ledger, weekly report-and-reset       *)
(* cycle and its scheduler.                                                *)
(*                                                                         *)
(* Text is modelled as a sequence of whitespace-separated tokens.  A token *)
(* is a record [k, s, n, c]:                                               *)
(*   k = "mention"  <@ddd...>  s = the id (a label for the digit string),  *)
(*                             n = the number of digits                    *)
(*   k = "num"      a run of digits, n = its value                         *)
(*   k = "word"     a run of letters, s = the word                         *)
(*   k = "price"    c = its characters: "$", ",", "." and digits           *)
(*   k = "bracket"  [name], s = name                                       *)
(*   k = "pipename" name |  at the head of the text, s = name              *)
(* Money is counted in cents, time in milliseconds.                        *)
(***************************************************************************)
EXTENDS Integers, Sequences, FiniteSets, TLC

\* ------------------------------------------------------------------------
\* Values standing for JavaScript's null and NaN.
Null == "null"
\* null where a number is expected (a ranch id, an amount), and NaN; every
\* number of the program is >= 0.
NoNumber == 0 - 1
NaN == 0 - 2
\* The null returned by extractItemAndAmount and parseGather, as a record.
NoItem == [item_type |-> Null, amount |-> NoNumber, value |-> 0, subtype |-> Null]
NoParse == [discord_id |-> Null, actor |-> Null, ranch_id |-> NoNumber,
            item_type |-> Null, amount |-> NoNumber, value |-> 0, subtype |-> Null]

\* Stand-in for the numeric value of a digit run too long for TLC's integers
\* (a 16 to 21 digit id); only compared with 100000 and with ranch ids.
HugeNumber == 1000 * 1000 * 1000

Mention(u, d) == [k |-> "mention", s |-> u, n |-> d, c |-> <<>>]
Num(v) == [k |-> "num", s |-> "", n |-> v, c |-> <<>>]
Word(w) == [k |-> "word", s |-> w, n |-> 0, c |-> <<>>]
Price(chars) == [k |-> "price", s |-> "", n |-> 0, c |-> chars]
Bracket(name) == [k |-> "bracket", s |-> name, n |-> 0, c |-> <<>>]
PipeName(name) == [k |-> "pipename", s |-> name, n |-> 0, c |-> <<>>]

DigitChars == {"0", "1", "2", "3", "4", "5", "6", "7", "8", "9"}
DigitVal(ch) ==
    CASE ch = "0" -> 0 [] ch = "1" -> 1 [] ch = "2" -> 2 [] ch = "3" -> 3
      [] ch = "4" -> 4 [] ch = "5" -> 5 [] ch = "6" -> 6 [] ch = "7" -> 7
      [] ch = "8" -> 8 [] ch = "9" -> 9

\* String.prototype.toLowerCase on the words of the model.
toLowerCase(w) ==
    CASE w = "Bison" -> "bison" [] w = "Sold" -> "sold" [] w = "Bought" -> "bought"
      [] w = "Eggs" -> "eggs" [] w = "Milk" -> "milk" [] w = "Ranch" -> "ranch"
      [] w = "Unknown" -> "unknown" [] w = "UNKNOWN" -> "unknown"
      [] OTHER -> w

\* The value of a run of digit characters (Number("300") = 300).
RECURSIVE DigitsValue(_)
DigitsValue(ds) ==
    IF ds = <<>> THEN 0
    ELSE IF Len(ds) > 9 THEN HugeNumber
    ELSE DigitsValue(SubSeq(ds, 1, Len(ds) - 1)) * 10 + DigitVal(ds[Len(ds)])

\* The maximal runs of digits in a sequence of characters, in order, each
\* as its sequence of characters (/\d+/g).
RECURSIVE CharRuns(_, _, _)
CharRuns(chars, i, cur) ==
    IF i > Len(chars) THEN (IF cur = <<>> THEN <<>> ELSE <<cur>>)
    ELSE IF chars[i] \in DigitChars THEN CharRuns(chars, i + 1, Append(cur, chars[i]))
    ELSE (IF cur = <<>> THEN <<>> ELSE <<cur>>) \o CharRuns(chars, i + 1, <<>>)

\* Definitions take the values they use more than once as parameters, so
\* that each is written, and evaluated, once.

Last(seq) == seq[Len(seq)]
RunValues(rs) == [j \in 1..Len(rs) |-> DigitsValue(rs[j])]

\* The digit runs of one token, as numbers.
TokenRuns(tok) ==
    CASE tok.k = "num" -> <<tok.n>>
      [] tok.k = "mention" -> <<HugeNumber>>
      [] tok.k = "price" -> RunValues(CharRuns(tok.c, 1, <<>>))
      [] OTHER -> <<>>

\* The digit runs of a text, in order (text.match(/\d+/g).map(Number)).
RECURSIVE AllRuns(_, _)
AllRuns(text, i) ==
    IF i > Len(text) THEN <<>> ELSE TokenRuns(text[i]) \o AllRuns(text, i + 1)

StartsWithDigit(tok) ==
    \/ tok.k = "num"
    \/ tok.k = "price" /\ tok.c # <<>> /\ tok.c[1] \in DigitChars
EndsWithDigit(tok) ==
    \/ tok.k = "num"
    \/ tok.k = "price" /\ tok.c # <<>> /\ Last(tok.c) \in DigitChars
FirstRun(tok) == TokenRuns(tok)[1]
LastRun(tok) == Last(TokenRuns(tok))

IsWord(tok, ws) == tok.k = "word" /\ toLowerCase(tok.s) \in ws

\* The least index in 1..n satisfying P, or 0: where a regular expression
\* matches first.
MinOrZero(S) == IF S = {} THEN 0 ELSE CHOOSE i \in S : \A j \in S : i <= j
FirstIndex(n, P(_)) == MinOrZero({i \in 1..n : P(i)})

\* ------------------------------------------------------------------------
\* Parsing helpers

\* /<@!?(\d{17,20})>/ : the first mention token of 17 to 20 digits.
MentionAtFrom16(text, i) == text[i].k = "mention" /\ text[i].n >= 16 /\ text[i].n <= 20
MentionAt(text, i) == text[i].k = "mention" /\ text[i].n >= 17 /\ text[i].n <= 20
TokenStringOr(text, i) == IF i = 0 THEN Null ELSE text[i].s
extractDiscordId(text) ==
    TokenStringOr(text, FirstIndex(Len(text), LAMBDA i : MentionAt(text, i)))

\* /^\[([^\]]{1,64})\]/ || /\[([^\]]{1,64})\]/, then /^([^|\n]{1,64})\s*\|/
ActorNameAt(text, i) ==
    IF i # 0 THEN text[i].s
    ELSE IF Len(text) > 0 /\ text[1].k = "pipename" THEN text[1].s
    ELSE Null
extractActorName(text) ==
    ActorNameAt(text, FirstIndex(Len(text), LAMBDA i : text[i].k = "bracket"))

\* /ranch\s*id\s*[:#]?\s*(\d+)/i || /\branch\s*(\d+)/i
RanchWithIdAt(text, i) ==
    /\ i + 2 <= Len(text)
    /\ IsWord(text[i], {"ranch"})
    /\ IsWord(text[i + 1], {"id"})
    /\ StartsWithDigit(text[i + 2])
RanchPlainAt(text, i) ==
    /\ i + 1 <= Len(text)
    /\ IsWord(text[i], {"ranch"})
    /\ StartsWithDigit(text[i + 1])
RanchIdAt(text, a, b) ==
    IF a # 0 THEN FirstRun(text[a + 2])
    ELSE IF b # 0 THEN FirstRun(text[b + 1])
    ELSE NoNumber
extractRanchId(text) ==
    RanchIdAt(text, FirstIndex(Len(text), LAMBDA i : RanchWithIdAt(text, i)),
                    FirstIndex(Len(text), LAMBDA i : RanchPlainAt(text, i)))

\* Number(priceRaw) of the characters matched by [\d,\.]+ with the commas
\* removed, in cents; NaN when it is no number.  Fractions keep two digits.
TwoDigits(frac) ==
    IF Len(frac) = 0 THEN <<"0", "0">>
    ELSE IF Len(frac) = 1 THEN <<frac[1], "0">>
    ELSE SubSeq(frac, 1, 2)
NumberOfParts(body, dot) ==
    IF dot = 0 THEN DigitsValue(body) * 100
    ELSE DigitsValue(SubSeq(body, 1, dot - 1)) * 100
         + DigitsValue(TwoDigits(SubSeq(body, dot + 1, Len(body))))
NumberOfChars(body) ==
    IF Len(SelectSeq(body, LAMBDA ch : ch = ".")) > 1
       \/ SelectSeq(body, LAMBDA ch : ch # ".") = <<>>
    THEN NaN
    ELSE NumberOfParts(body, FirstIndex(Len(body), LAMBDA i : body[i] = "."))
PriceNumber(chars) == NumberOfChars(SelectSeq(chars, LAMBDA ch : ch # "$" /\ ch # ","))

\* A token that \$?([\d,\.]+)\$? matches, and Number() of what it captures.
IsPriceToken(tok) ==
    \/ tok.k = "num"
    \/ tok.k = "price" /\ SelectSeq(tok.c, LAMBDA ch : ch # "$") # <<>>
PriceOfToken(tok) == IF tok.k = "num" THEN tok.n * 100 ELSE PriceNumber(tok.c)

\* /(\d+)\s*(eggs?|milk)\b/i
NearAt(text, i) ==
    /\ i + 1 <= Len(text)
    /\ EndsWithDigit(text[i])
    /\ IsWord(text[i + 1], {"egg", "eggs", "milk"})
\* /\b(bought|sold)\b\s+(\d+)\s+([A-Za-z]+)\s+for\s+\$?([\d,\.]+)\$?/i
HerdAt(text, i) ==
    /\ i + 4 <= Len(text)
    /\ IsWord(text[i], {"bought", "sold"})
    /\ text[i + 1].k = "num"
    /\ text[i + 2].k = "word"
    /\ IsWord(text[i + 3], {"for"})
    /\ IsPriceToken(text[i + 4])

\* The fallback: the numbers of the text without those equal to the ranch
\* id (when that is truthy), the last of them the amount.
Candidates(nums, ranchId) ==
    IF ranchId # NoNumber /\ ranchId # 0
    THEN SelectSeq(nums, LAMBDA v : v # ranchId)
    ELSE nums
FallbackItem(text, candidates) ==
    IF ~(\E i \in 1..Len(text) : IsWord(text[i], {"egg", "eggs", "milk"})) THEN NoItem
    ELSE IF candidates = <<>> THEN NoItem
    ELSE [item_type |-> IF \E i \in 1..Len(text) : IsWord(text[i], {"milk"})
                        THEN "milk" ELSE "eggs",
          amount |-> Last(candidates), value |-> 0, subtype |-> Null]

ItemAtHerdFirst(text, near, herd) ==
    IF text = <<>> THEN NoItem
    ELSE IF herd # 0 THEN
        [item_type |-> IF toLowerCase(text[herd].s) = "bought" THEN "herd_buy" ELSE "herd_sell",
         amount |-> text[herd + 1].n,
         value |-> PriceOfToken(text[herd + 4]),
         subtype |-> toLowerCase(text[herd + 2].s)]
    ELSE IF near # 0 THEN
        [item_type |-> IF toLowerCase(text[near + 1].s) = "milk" THEN "milk" ELSE "eggs",
         amount |-> LastRun(text[near]), value |-> 0, subtype |-> Null]
    ELSE FallbackItem(text, Candidates(AllRuns(text, 1), extractRanchId(text)))
ItemAt(text, near, herd) ==
    IF text = <<>> THEN NoItem
    ELSE IF near # 0 THEN
        [item_type |-> IF toLowerCase(text[near + 1].s) = "milk" THEN "milk" ELSE "eggs",
         amount |-> LastRun(text[near]), value |-> 0, subtype |-> Null]
    ELSE IF herd # 0 THEN
        [item_type |-> IF toLowerCase(text[herd].s) = "bought" THEN "herd_buy" ELSE "herd_sell",
         amount |-> text[herd + 1].n,
         value |-> PriceOfToken(text[herd + 4]),
         subtype |-> toLowerCase(text[herd + 2].s)]
    ELSE FallbackItem(text, Candidates(AllRuns(text, 1), extractRanchId(text)))

extractItemAndAmount(text) ==
    ItemAt(text, FirstIndex(Len(text), LAMBDA i : NearAt(text, i)),
                 FirstIndex(Len(text), LAMBDA i : HerdAt(text, i)))

\* JavaScript's (v || 0) on a number.
OrZero(v) == IF v = NaN THEN 0 ELSE v

GatherOfUpTo100001(text, item) ==
    IF text = <<>> THEN NoParse
    ELSE IF item = NoItem \/ item.amount = 0 \/ item.amount <= 0 THEN NoParse
    ELSE IF item.amount > 100001 THEN NoParse
    ELSE [discord_id |-> extractDiscordId(text),
          actor |-> extractActorName(text),
          ranch_id |-> extractRanchId(text),
          item_type |-> item.item_type,
          amount |-> item.amount,
          value |-> OrZero(item.value),
          subtype |-> item.subtype]
GatherOf(text, item) ==
    IF text = <<>> THEN NoParse
    ELSE IF item = NoItem \/ item.amount = 0 \/ item.amount <= 0 THEN NoParse
    ELSE IF item.amount > 100000 THEN NoParse
    ELSE [discord_id |-> extractDiscordId(text),
          actor |-> extractActorName(text),
          ranch_id |-> extractRanchId(text),
          item_type |-> item.item_type,
          amount |-> item.amount,
          value |-> OrZero(item.value),
          subtype |-> item.subtype]
parseGather(text) == GatherOf(text, extractItemAndAmount(text))

\* ------------------------------------------------------------------------
\* Settings
DUPLICATE_WINDOW_MS == 10 * 1000
SEVEN_DAYS_MS == 7 * 24 * 60 * 60 * 1000
TICK_MS == 60 * 1000
\* LISTEN_CHANNEL_ID of the environment.
listenChannelId == "chan-listen"

\* ------------------------------------------------------------------------
\* State
VARIABLES
    now,                \* Date.now(): ms since Monday 2024-01-01 00:00 in Toronto
    advances,           \* how often the clock was advanced (bounds the run)
    gathers,            \* table gathers: a set of rows (message_id is UNIQUE)
    metaSchedule,       \* meta["report_schedule"], NoSchedule when absent
    metaLastReportDate, \* meta["last_report_date"], NoDate when absent or null
    subscribers,        \* table report_subscribers
    webhook,            \* whether REPORT_WEBHOOK_URL is set
    due,                \* when the scheduler's interval timer expires next
    cycles,             \* the runs of performWeeklyReportAndReset in progress
    nCycles,            \* how many runs were started
    history             \* what the handlers did, for the properties below

dbVars == <<gathers, metaSchedule, metaLastReportDate, subscribers>>
schedVars == <<due, cycles, nCycles, history>>
vars == <<now, advances, gathers, metaSchedule, metaLastReportDate, subscribers,
          webhook, due, cycles, nCycles, history>>

\* ------------------------------------------------------------------------
\* Prepared statements on gathers

\* countRecentDuplicate
countRecentDuplicateStrict(rows, channel_id, item_type, amount, discord_id, since_ts) ==
    Cardinality({r \in rows :
        /\ r.channel_id = channel_id
        /\ r.item_type = item_type
        /\ r.amount = amount
        /\ r.discord_id = discord_id
        /\ r.ts > since_ts})
countRecentDuplicate(rows, channel_id, item_type, amount, discord_id, since_ts) ==
    Cardinality({r \in rows :
        /\ r.channel_id = channel_id
        /\ r.item_type = item_type
        /\ r.amount = amount
        /\ \/ discord_id = Null /\ r.discord_id = Null
           \/ r.discord_id # Null /\ discord_id # Null /\ r.discord_id = discord_id
        /\ r.ts >= since_ts})

\* insertGather: message_id is UNIQUE, the insert throws on a stored id.
insertThrowsNever(rows, row) == FALSE
insertThrows(rows, row) == \E r \in rows : r.message_id = row.message_id
insertGather(rows, row) == rows \cup {row}

deleteSinceStrict(rows, since_ts) == {r \in rows : ~(r.ts > since_ts)}
\* deleteSince with ranch_id null
deleteSince(rows, since_ts) == {r \in rows : ~(r.ts >= since_ts)}

sevenDaysAgoTs(t) == t - SEVEN_DAYS_MS

\* ------------------------------------------------------------------------
\* Inputs of the message path

\* Monday 08:59:59.999, one millisecond before the default slot (Monday 09:00).
StartOfRun == ((8 * 60 + 59) * 60 + 59) * 1000 + 999

MaxElapses == 2
MaxAdvances == 3

Dollars300 == Price(<<"$", "3", "0", "0">>)
Dollars960 == Price(<<"9", "6", "0", ".", "0", "$">>)
Dollars1200 == Price(<<"$", "1", ",", "2", "0", "0">>)
DollarsBad == Price(<<"1", ".", "2", ".", "3">>)

MentionTexts ==
    {<<>>, <<Mention("U1", 17)>>, <<Mention("U2", 20)>>,
     <<Mention("U3", 16)>>, <<Mention("U4", 21)>>}
PrefixTexts ==
    {<<>>, <<Bracket("PlayerX")>>, <<Bracket("Unknown")>>, <<PipeName("unknown")>>}
RanchTexts ==
    {<<>>, <<Word("ranch"), Num(12)>>, <<Word("Ranch"), Word("id"), Num(0)>>}
BodyTexts ==
    {<<Word("collected"), Num(5), Word("eggs")>>,
     <<Num(0), Word("eggs")>>,
     <<Num(100000), Word("Milk")>>,
     <<Num(100001), Word("eggs")>>,
     <<Word("eggs")>>,
     <<Word("eggs"), Word("collected"), Num(5)>>,
     <<Word("bought"), Num(5), Word("Bison"), Word("for"), Dollars300>>,
     <<Word("bought"), Num(5), Word("cow"), Word("for"), Dollars1200>>,
     <<Word("Sold"), Num(4), Word("Bison"), Word("for"), Dollars960>>,
     <<Word("sold"), Num(4), Word("bison"), Word("for"), DollarsBad>>,
     <<Word("Sold"), Num(4), Word("Bison"), Word("for"), Dollars960, Num(7), Word("eggs")>>,
     <<Word("bought"), Num(5), Word("Bison"), Word("for"), Num(300), Word("milk")>>,
     <<Word("eggs"), Word("bought"), Num(5), Word("Bison"), Word("for"), Dollars300>>,
     <<Word("hello")>>}

CoreBody == <<Word("collected"), Num(5), Word("eggs")>>
\* Texts of the fallback rule with the ranch after the count: another
\* number, the count's own number, and 0.
FallbackRanchTexts ==
    {<<Word("eggs"), Word("collected"), Num(5)>> \o r :
        r \in {<<Word("ranch"), Num(12)>>, <<Word("ranch"), Num(5)>>,
                <<Word("Ranch"), Word("id"), Num(0)>>}}

\* Every prefix and mention with one body; one mention with every body; the
\* ranch parts with the bodies whose amount they can change.
MsgTexts ==
    {p \o m \o CoreBody : p \in PrefixTexts, m \in MentionTexts}
    \cup {<<Mention("U1", 17)>> \o b : b \in BodyTexts}
    \cup {<<Mention("U1", 17)>> \o r \o b :
            r \in RanchTexts,
            b \in {CoreBody, <<Word("eggs")>>, <<Word("eggs"), Word("collected"), Num(5)>>}}
    \cup {<<Mention("U1", 17)>> \o b : b \in FallbackRanchTexts}

MsgIds == {"m1", "m2"}

\* A message of the listened channel with its text as content; some in
\* another channel; some with a blank content and the text in the first embed.
Messages(texts) ==
    {[id |-> i, channelId |-> listenChannelId, content |-> t, embeds |-> <<>>] :
        i \in MsgIds, t \in texts}
    \cup {[id |-> i, channelId |-> "chan-other", content |-> <<Mention("U1", 17)>> \o CoreBody,
           embeds |-> <<>>] : i \in MsgIds}
    \cup {[id |-> i, channelId |-> listenChannelId, content |-> <<>>,
           embeds |-> <<<<Mention("U2", 20)>> \o b, <<Mention("U1", 17)>> \o CoreBody>>] :
        i \in MsgIds, b \in {CoreBody, <<Word("hello")>>}}

\* parseGather on every text of the model, computed once.
AllTexts == MsgTexts \cup {<<Mention("U2", 20)>> \o CoreBody, <<Mention("U2", 20), Word("hello")>>}
Parsed == [t \in AllTexts |-> parseGather(t)]

\* ------------------------------------------------------------------------
\* Message listener

\* The text the handler parses: the content, or the first embed's title,
\* description and fields when the content is blank.
textUsed(message) ==
    IF message.content = <<>> /\ Len(message.embeds) > 0
    THEN message.embeds[1]
    ELSE message.content

\* The row the handler inserts.
GatherRow(t, message, parsed) ==
    [ts |-> t,
     channel_id |-> message.channelId,
     message_id |-> message.id,
     discord_id |-> parsed.discord_id,
     ranch_id |-> parsed.ranch_id,
     item_type |-> parsed.item_type,
     amount |-> parsed.amount,
     value |-> OrZero(parsed.value),
     subtype |-> parsed.subtype]

\* The handler's catch: silent on "UNIQUE constraint failed", console.error
\* on anything else.
CatchInHandler(rows, error) ==
    IF error = "UNIQUE constraint failed" THEN [rows |-> rows, log |-> "UNIQUE_IGNORED"]
    ELSE [rows |-> rows, log |-> "ERROR in messageCreate"]

InsertOrReplace(rows, row) ==
    [rows |-> {r \in rows : r.message_id # row.message_id} \cup {row}, log |-> "LOGGED"]
\* insertGather.run inside the handler's try.
InsertOrCatch(rows, row) ==
    IF insertThrows(rows, row) THEN CatchInHandler(rows, "UNIQUE constraint failed")
    ELSE [rows |-> insertGather(rows, row), log |-> "LOGGED"]

HandleParsedAnyChannel(rows, t, message, parsed) ==
    IF parsed = NoParse THEN [rows |-> rows, log |-> "PARSE_FAIL"]
    ELSE IF parsed.discord_id = Null THEN [rows |-> rows, log |-> "SKIP_NO_MENTION"]
    ELSE IF countRecentDuplicate(rows, message.channelId, parsed.item_type, parsed.amount,
                                 parsed.discord_id, t - DUPLICATE_WINDOW_MS) > 0
        THEN [rows |-> rows, log |-> "DUPLICATE_SKIPPED"]
    ELSE InsertOrCatch(rows, GatherRow(t, message, parsed))

\* The handler with the duplicate check left out.
HandleParsedNoDuplicateCheck(rows, t, message, parsed) ==
    IF message.channelId # listenChannelId THEN [rows |-> rows, log |-> "IGNORED"]
    ELSE IF parsed = NoParse THEN [rows |-> rows, log |-> "PARSE_FAIL"]
    ELSE IF parsed.discord_id = Null THEN [rows |-> rows, log |-> "SKIP_NO_MENTION"]
    ELSE InsertOrCatch(rows, GatherRow(t, message, parsed))

\* The handler's result on the ledger `rows` at time t: the new ledger and
\* what it logged.
HandleParsed(rows, t, message, parsed) ==
    IF message.channelId # listenChannelId THEN [rows |-> rows, log |-> "IGNORED"]
    ELSE IF parsed = NoParse THEN [rows |-> rows, log |-> "PARSE_FAIL"]
    ELSE IF parsed.discord_id = Null THEN
        IF parsed.actor # Null /\ toLowerCase(parsed.actor) = "unknown"
        THEN [rows |-> rows, log |-> "SKIP_UNKNOWN_ACTOR"]
        ELSE [rows |-> rows, log |-> "SKIP_NO_MENTION"]
    ELSE IF countRecentDuplicate(rows, message.channelId, parsed.item_type, parsed.amount,
                                 parsed.discord_id, t - DUPLICATE_WINDOW_MS) > 0
        THEN [rows |-> rows, log |-> "DUPLICATE_SKIPPED"]
    ELSE InsertOrCatch(rows, GatherRow(t, message, parsed))

messageCreateResult(rows, t, message) ==
    HandleParsed(rows, t, message, Parsed[textUsed(message)])

\* Two messages delivered at the same time: the listener (line 312) is a plain
\* function with no await, and the statements of better-sqlite3 are
\* synchronous, so the event loop runs the handler of one to its end before
\* the other's, in either order.  The ledgers that can result.
TwoMessages(rows, t, m1, m2) ==
    {messageCreateResult(messageCreateResult(rows, t, m1).rows, t, m2).rows,
     messageCreateResult(messageCreateResult(rows, t, m2).rows, t, m1).rows}

MessageCreate(message) ==
    /\ gathers' = messageCreateResult(gathers, now, message).rows
    /\ UNCHANGED <<now, advances, metaSchedule, metaLastReportDate, subscribers,
                   webhook, due, cycles, nCycles, history>>

NoSchedule == [weekday |-> NoNumber, hour |-> NoNumber, minute |-> NoNumber]
NoDate == <<>>

\* The process has started on a ledger holding `rows`; the first tick is due.
Started(rows) ==
    /\ now = StartOfRun
    /\ advances = 0
    /\ gathers = rows
    /\ metaSchedule = NoSchedule
    /\ metaLastReportDate = NoDate
    /\ subscribers = {}
    /\ webhook \in BOOLEAN
    /\ due = StartOfRun
    /\ cycles = {}
    /\ nCycles = 0
    /\ history = <<>>

\* Time passes with no handler running.
Elapse(d) ==
    /\ advances < MaxAdvances
    /\ now' = now + d
    /\ advances' = advances + 1
    /\ UNCHANGED <<gathers, metaSchedule, metaLastReportDate, subscribers,
                   webhook, due, cycles, nCycles, history>>

ElapseSeconds == \E d \in {5000, 6000} : advances < MaxElapses /\ Elapse(d)
ReceiveMessage == \E message \in Messages(MsgTexts) : MessageCreate(message)

MsgInit == Started({}) /\ webhook = FALSE
MsgNext == ReceiveMessage \/ ElapseSeconds
MsgSpec == MsgInit /\ [][MsgNext]_vars

\* ------------------------------------------------------------------------
\* Timezone helpers.  The clock counts from Monday 2024-01-01 00:00 Toronto
\* time; no daylight-saving change falls into the weeks that follow.
MINUTE_MS == 60 * 1000
HOUR_MS == 60 * MINUTE_MS
DAY_MS == 24 * HOUR_MS
DaysInMonth2024 == <<31, 29, 31, 30, 31, 30, 31, 31, 30, 31, 30, 31>>

RECURSIVE MonthAndDay(_, _)
MonthAndDay(month, dayOfYear) ==
    IF month = 12 \/ dayOfYear < DaysInMonth2024[month]
    THEN [month |-> month, day |-> dayOfYear + 1]
    ELSE MonthAndDay(month + 1, dayOfYear - DaysInMonth2024[month])

PartsOf(t, md) ==
    [year |-> 2024, month |-> md.month, day |-> md.day,
     hour |-> (t \div HOUR_MS) % 24,
     minute |-> (t \div MINUTE_MS) % 60,
     weekday |-> (1 + (t \div DAY_MS)) % 7]
getTorontoDateParts(t) == PartsOf(t, MonthAndDay(1, t \div DAY_MS))

isReportTime(nowParts, scheduledWeekday, scheduledHour, scheduledMinute) ==
    /\ nowParts.weekday = scheduledWeekday
    /\ nowParts.hour = scheduledHour
    /\ nowParts.minute = scheduledMinute

\* `${year}-${month padded}-${day padded}`: the string, as its three numbers.
DateStr(nowParts) == <<nowParts.year, nowParts.month, nowParts.day>>

DEFAULT_WEEKDAY == 1
DEFAULT_HOUR == 9
DEFAULT_MINUTE == 0
getScheduleMeta(stored) ==
    IF stored = NoSchedule
    THEN [weekday |-> DEFAULT_WEEKDAY, hour |-> DEFAULT_HOUR, minute |-> DEFAULT_MINUTE]
    ELSE stored

\* ------------------------------------------------------------------------
\* Aggregation

RECURSIVE SumOfAmount(_)
SumOfAmount(S) ==
    IF S = {} THEN 0
    ELSE LET r == CHOOSE x \in S : TRUE IN r.amount + SumOfAmount(S \ {r})
RECURSIVE SumOfValue(_)
SumOfValue(S) ==
    IF S = {} THEN 0
    ELSE LET r == CHOOSE x \in S : TRUE IN r.value + SumOfValue(S \ {r})

SumAmount(S, type) == SumOfAmount({r \in S : r.item_type = type})
SumValue(S, type) == SumOfValue({r \in S : r.item_type = type})

\* sumTotalsSince with ranch_id and discord_id null
sumTotalsSince(rows, since_ts) ==
    [eggs |-> SumAmount({r \in rows : r.ts >= since_ts}, "eggs"),
     milk |-> SumAmount({r \in rows : r.ts >= since_ts}, "milk")]

UserRow(S, uid) ==
    [discord_id |-> uid,
     eggs |-> SumAmount(S, "eggs"),
     milk |-> SumAmount(S, "milk"),
     herd_bought |-> SumAmount(S, "herd_buy"),
     herd_sold |-> SumAmount(S, "herd_sell"),
     herd_buy_cost |-> SumValue(S, "herd_buy"),
     herd_sell_revenue |-> SumValue(S, "herd_sell")]

\* ORDER BY (eggs + milk) DESC: a row of the greatest total first.  The
\* statement names no further sort key, so SQL leaves the order of rows with
\* equal totals open: every order of them is a possible result.
TopRows(G) == {g \in G : \A h \in G : g.eggs + g.milk >= h.eggs + h.milk}
RECURSIVE OrderByItemsDesc(_)
OrderByItemsDesc(G) ==
    IF G = {} THEN {<<>>}
    ELSE UNION {{<<top>> \o rest : rest \in OrderByItemsDesc(G \ {top})} : top \in TopRows(G)}

\* GROUP BY discord_id
GroupByUser(W) ==
    {UserRow({r \in W : r.discord_id = uid}, uid) : uid \in {r.discord_id : r \in W}}
\* weeklyPerUser.all(): the possible results
weeklyPerUser(rows, since_ts) ==
    OrderByItemsDesc(GroupByUser({r \in rows : r.ts >= since_ts /\ r.discord_id # Null}))

\* LIMIT @limit
Limited(result, limit) ==
    IF limit < Len(result) THEN SubSeq(result, 1, limit) ELSE result
\* topUsers.all() with ranch_id null; since is [given, ts], given = FALSE
\* standing for a null since_ts: the possible results
topUsers(rows, since, limit) ==
    {Limited(result, limit) :
        result \in OrderByItemsDesc(GroupByUser(
            {r \in rows : (~since.given \/ r.ts >= since.ts) /\ r.discord_id # Null}))}

\* parseSinceToTs: the option is null, or a text; [n, unit] is what
\* /^(\d+)\s*(h|d)$/i captures of it, unit "" when it does not match.
NoSinceOption == [text |-> Null, n |-> 0, unit |-> ""]
SinceOption(text, n, unit) == [text |-> text, n |-> n, unit |-> unit]
parseSinceToTs(since, t) ==
    IF since.text = Null \/ since.unit = "" THEN [given |-> FALSE, ts |-> 0]
    ELSE IF since.unit = "h" THEN [given |-> TRUE, ts |-> t - since.n * HOUR_MS]
    ELSE [given |-> TRUE, ts |-> t - since.n * DAY_MS]

\* Math.max(1, Math.min(200, interaction.options.getInteger("limit") || 50)):
\* the option is null (given = FALSE) or an integer; null and 0 are falsy.
NoLimitOption == [given |-> FALSE, n |-> 0]
LimitOption(n) == [given |-> TRUE, n |-> n]
LimitOrDefault(option) == IF ~option.given \/ option.n = 0 THEN 50 ELSE option.n
MathMin(a, b) == IF a < b THEN a ELSE b
MathMax(a, b) == IF a > b THEN a ELSE b
effectiveLimit(option) == MathMax(1, MathMin(200, LimitOrDefault(option)))

\* /leaderboard: the rows its embeds are built from, in order (the possible
\* results).
leaderboardRows(rows, t, since, limitOption) ==
    topUsers(rows, parseSinceToTs(since, t), effectiveLimit(limitOption))

\* SELECT COALESCE(SUM(value),0) ... WHERE ts >= @since_ts AND item_type = ...
herdTotal(rows, since_ts, type) == SumValue({r \in rows : r.ts >= since_ts}, type)

\* listSubscribers.all(): SELECT without ORDER BY, the subscribers in any
\* order.
RECURSIVE SeqOfSet(_)
SeqOfSet(S) ==
    IF S = {} THEN {<<>>}
    ELSE UNION {{<<x>> \o rest : rest \in SeqOfSet(S \ {x})} : x \in S}

\* ------------------------------------------------------------------------
\* Report blocks (embeds).  Dollars are cents here: PRICE_PER_ITEM = 1.25.
PRICE_PER_ITEM == 125
BATCH_SIZE == 10

\* getDisplayNameForGuild and the caller's fallback: the member's display
\* name, or the raw id when the lookup failed.
DisplayOf(uid, how) == IF how = "name" THEN "nick-" \o uid ELSE uid

PersonBlockBuyMinusSell(r, display) ==
    [kind |-> "person", display |-> display,
     eggs |-> r.eggs, milk |-> r.milk, totalItems |-> r.eggs + r.milk,
     herdBought |-> r.herd_bought, herdSold |-> r.herd_sold,
     herdBuyCost |-> r.herd_buy_cost, herdSellRevenue |-> r.herd_sell_revenue,
     herdNet |-> r.herd_buy_cost - r.herd_sell_revenue,
     totalRevenue |-> (r.eggs + r.milk) * PRICE_PER_ITEM
                      + (r.herd_buy_cost - r.herd_sell_revenue)]
\* Lines 437-457 and 481-484 (634-643 in leaderboard, 708-717 in
\* weekly_totals): the figures of one person's embed.
PersonBlock(r, display) ==
    [kind |-> "person", display |-> display,
     eggs |-> r.eggs, milk |-> r.milk, totalItems |-> r.eggs + r.milk,
     herdBought |-> r.herd_bought, herdSold |-> r.herd_sold,
     herdBuyCost |-> r.herd_buy_cost, herdSellRevenue |-> r.herd_sell_revenue,
     herdNet |-> r.herd_sell_revenue - r.herd_buy_cost,
     totalRevenue |-> (r.eggs + r.milk) * PRICE_PER_ITEM
                      + (r.herd_sell_revenue - r.herd_buy_cost)]
\* Lines 459-477 (678-701 in weekly_totals): the figures of the summary embed.
OverviewBlock(totals, herdBuyCost, herdSellRevenue) ==
    [kind |-> "overview", display |-> "Weekly Summary",
     eggs |-> totals.eggs, milk |-> totals.milk, totalItems |-> totals.eggs + totals.milk,
     herdBuyCost |-> herdBuyCost, herdSellRevenue |-> herdSellRevenue,
     herdNet |-> herdSellRevenue - herdBuyCost,
     totalRevenue |-> (totals.eggs + totals.milk) * PRICE_PER_ITEM
                      + (herdSellRevenue - herdBuyCost)]
PersonBlocks(rows, displays) ==
    [j \in 1..Len(rows) |-> PersonBlock(rows[j], DisplayOf(rows[j].discord_id, displays[j]))]

BatchAtOneMore(embeds, i) ==
    SubSeq(embeds, (i - 1) * BATCH_SIZE + 1, MathMin(i * BATCH_SIZE + 1, Len(embeds)))
\* embeds.slice(i, i + 10) of the i-th pass of the loop (i = 1, 2, ...)
BatchAt(embeds, i) ==
    SubSeq(embeds, (i - 1) * BATCH_SIZE + 1, MathMin(i * BATCH_SIZE, Len(embeds)))
\* how often for (i = 0; i < embeds.length; i += 10) runs its body
BatchCount(embeds) == (Len(embeds) + BATCH_SIZE - 1) \div BATCH_SIZE

\* ------------------------------------------------------------------------
\* performWeeklyReportAndReset, and the handlers of /weekly_totals and
\* /leaderboard, which resolve names and send embeds in the same way.  A run
\* is a record; kind is "sched", "manual", "weekly_totals" or "leaderboard";
\* pc says where it awaits: "names" (getDisplayNameForGuild of rows[i]),
\* "webhook" (the POST of batch i), "followUp" (sendEmbedsInBatches sending
\* batch i to the deferred interaction), "dm" (the DM to subs[i]); "prune"
\* and "done" are passed through without awaiting.  sent holds the sends
\* begun so far, the one awaited included, failed the indices of those that
\* failed.

NoOverview == [herdBuyCost |-> 0, herdSellRevenue |-> 0]

\* Lines 413-418: the window, the totals and the per-user rows.
NewCycle(id, kind, date, slot, rows, t, perUser) ==
    [id |-> id, kind |-> kind, date |-> date, slot |-> slot, pc |-> "names", i |-> 1,
     since_ts |-> sevenDaysAgoTs(t),
     totals |-> sumTotalsSince(rows, sevenDaysAgoTs(t)),
     rows |-> perUser,
     displays |-> <<>>,
     overview |-> NoOverview,
     batches |-> 0,
     subs |-> <<>>,
     undelivered |-> FALSE,
     outcome |-> "",
     embeds |-> <<>>,
     sent |-> <<>>,
     failed |-> {}]

\* Lines 504-524: the delivery starts; with neither webhook nor subscriber
\* the run returns without pruning.
BeginDelivery(c, web, subs) ==
    IF c.kind \in {"weekly_totals", "leaderboard"} THEN
        IF c.embeds = <<>> THEN [c EXCEPT !.pc = "done", !.outcome = "posted"]
        ELSE [c EXCEPT !.pc = "followUp", !.i = 1, !.batches = BatchCount(c.embeds)]
    ELSE IF web THEN [c EXCEPT !.pc = "webhook", !.i = 1,
                               !.batches = BatchCount(c.embeds)]
    ELSE IF subs = <<>> THEN [c EXCEPT !.pc = "done", !.outcome = "no-target"]
    ELSE [c EXCEPT !.pc = "dm", !.i = 1, !.subs = subs]

\* Lines 459-465: the cycle reads the herd totals when the names are
\* resolved (weekly_totals has read them before, lines 684-687).
OverviewOf(c, rows) ==
    IF c.kind \in {"sched", "manual"}
    THEN [herdBuyCost |-> herdTotal(rows, c.since_ts, "herd_buy"),
          herdSellRevenue |-> herdTotal(rows, c.since_ts, "herd_sell")]
    ELSE c.overview
\* Lines 467-501: the embeds, the summary first (leaderboard has none).
EmbedsOf(c, overview) ==
    IF c.kind = "leaderboard" THEN PersonBlocks(c.rows, c.displays)
    ELSE <<OverviewBlock(c.totals, overview.herdBuyCost, overview.herdSellRevenue)>>
         \o PersonBlocks(c.rows, c.displays)
Composed(c, overview) == [c EXCEPT !.overview = overview, !.embeds = EmbedsOf(c, overview)]
Compose(c, rows) == Composed(c, OverviewOf(c, rows))

\* The run from where it stands to its next await, or to its end.
Advance(c, rows, web, subs) ==
    IF c.pc = "names" /\ c.i > Len(c.rows)
    THEN BeginDelivery(Compose(c, rows), web, subs)
    ELSE IF c.pc = "webhook" /\ c.i > c.batches THEN [c EXCEPT !.pc = "prune"]
    ELSE IF c.pc = "followUp" /\ c.i > c.batches
        THEN [c EXCEPT !.pc = "done", !.outcome = "posted"]
    ELSE IF c.pc = "dm" /\ c.i > Len(c.subs) THEN [c EXCEPT !.pc = "prune"]
    ELSE c

\* What the run sends where it awaits a delivery: batch i of the embeds, or
\* the whole report as one text to subscriber i.
SendOf(c) ==
    [via |-> c.pc,
     to |-> IF c.pc = "dm" THEN c.subs[c.i] ELSE "",
     embeds |-> IF c.pc = "dm" THEN c.embeds ELSE BatchAt(c.embeds, c.i)]
Sending(c) ==
    IF c.pc \in {"webhook", "followUp", "dm"}
    THEN [c EXCEPT !.sent = Append(c.sent, SendOf(c))]
    ELSE c
RunOn(c, rows, web, subs) == Sending(Advance(c, rows, web, subs))

\* The outcome of a run that has ended: pruned after its deliveries, pruned
\* although a delivery failed (the failure is logged and the run goes on),
\* or returned before the prune for want of a target.
OutcomeOf(c) ==
    IF c.pc = "prune" THEN (IF c.undelivered THEN "pruned-undelivered" ELSE "pruned")
    ELSE c.outcome

\* The log of the runs, kept for the properties: a run's start and end (with
\* the schedule in force at its start), and the ticks the marker suppressed.
StartEvent(c) == [e |-> "start", kind |-> c.kind, date |-> c.date, slot |-> c.slot,
                  outcome |-> ""]
EndEvent(c) == [e |-> "end", kind |-> c.kind, date |-> c.date, slot |-> c.slot,
                outcome |-> OutcomeOf(c)]
SuppressedEvent(date, slot) == [e |-> "suppressed", kind |-> "sched", date |-> date,
                                slot |-> slot, outcome |-> ""]

SetsMarkerAlways(c) == TRUE

\* Whether the caller sets the marker when the run returns: the tick does
\* (line 583), whatever the run did, for performWeeklyReportAndReset catches
\* its errors and returns normally; the manual trigger does not.
SetsMarker(c) == c.kind = "sched"

\* The state after run c has gone on to c1 (before, the events `pre` are
\* logged): either it awaits again, or it ends, pruning when it got there.
Land(old, c1, pre) ==
    IF c1.pc \in {"prune", "done"}
    THEN /\ cycles' = cycles \ old
         /\ gathers' = IF c1.pc = "prune" THEN deleteSince(gathers, c1.since_ts)
                       ELSE gathers
         /\ history' = Append(pre, EndEvent(c1))
         /\ metaLastReportDate' = IF SetsMarker(c1) THEN c1.date ELSE metaLastReportDate
    ELSE /\ cycles' = (cycles \ old) \cup {c1}
         /\ history' = pre
         /\ UNCHANGED <<gathers, metaLastReportDate>>

MaxCycles == 2

\* A start that waits until no other run is going on.
LaunchRunExclusive(c) ==
    /\ cycles = {}
    /\ nCycles < MaxCycles
    /\ nCycles' = nCycles + 1
    /\ \E subs \in SeqOfSet(subscribers) :
         Land({}, RunOn(c, gathers, webhook, subs), Append(history, StartEvent(c)))

\* A new run starts (from the tick or the manual trigger) and goes to its
\* first await.
LaunchRun(c) ==
    /\ nCycles < MaxCycles
    /\ nCycles' = nCycles + 1
    /\ \E subs \in SeqOfSet(subscribers) :
         Land({}, RunOn(c, gathers, webhook, subs), Append(history, StartEvent(c)))
Launch(kind, date) ==
    \E perUser \in weeklyPerUser(gathers, sevenDaysAgoTs(now)) :
        LaunchRun(NewCycle(nCycles + 1, kind, date, getScheduleMeta(metaSchedule),
                           gathers, now, perUser))

\* The run after an awaited call has returned; `ok` is whether the call
\* succeeded.  A failed name lookup leaves the raw id (lines 295-309), a
\* failed POST or DM is logged and the loop goes on.
ReturnedStopsOnFailure(c, ok) ==
    [c EXCEPT !.i = IF ok THEN c.i + 1
                    ELSE IF c.pc = "names" THEN Len(c.rows) + 1
                    ELSE IF c.pc = "dm" THEN Len(c.subs) + 1
                    ELSE c.batches + 1,
              !.displays = IF c.pc = "names"
                           THEN (IF ok THEN Append(c.displays, "name")
                                 ELSE c.displays \o [j \in 1..(Len(c.rows) - Len(c.displays))
                                                       |-> "id"])
                           ELSE c.displays,
              !.undelivered = IF c.pc = "names" THEN c.undelivered
                              ELSE c.undelivered \/ ~ok,
              !.failed = IF c.pc = "names" \/ ok THEN c.failed
                         ELSE c.failed \cup {Len(c.sent)}]
Returned(c, ok) ==
    [c EXCEPT !.failed = IF c.pc = "names" \/ ok THEN c.failed
                         ELSE c.failed \cup {Len(c.sent)},
              !.i = c.i + 1,
              !.displays = IF c.pc = "names"
                           THEN Append(c.displays, IF ok THEN "name" ELSE "id")
                           ELSE c.displays,
              !.undelivered = IF c.pc = "names" THEN c.undelivered
                              ELSE c.undelivered \/ ~ok]

Resume(c, ok) ==
    /\ c.pc \in {"names", "webhook", "dm"}
    /\ \E subs \in SeqOfSet(subscribers) :
         Land({c}, RunOn(Returned(c, ok), gathers, webhook, subs), history)
    /\ UNCHANGED <<now, advances, metaSchedule, subscribers, webhook, due, nCycles>>

\* ------------------------------------------------------------------------
\* Scheduler

\* setInterval(..., 60 * 1000): the callback is due 60 s after the one
\* before.  By the wall clock the ticks read it runs up to TimerSkew ms
\* before it is due (the timer and the wall clock are rounded, the clock is
\* slewed) and up to TimerDelay ms after (the event loop is busy).
TimerSkew == 1
TimerDelay == 1

TickFiresWithoutMarker(nowParts, scheduleNow, last) ==
    isReportTime(nowParts, scheduleNow.weekday, scheduleNow.hour, scheduleNow.minute)

\* Lines 577-580: whether the tick runs the cycle.
TickFires(nowParts, scheduleNow, last) ==
    /\ isReportTime(nowParts, scheduleNow.weekday, scheduleNow.hour, scheduleNow.minute)
    /\ last # DateStr(nowParts)

\* Lines 575-583: the tick at a time of parts nowParts.
TickAt(nowParts, scheduleNow, last) ==
    IF TickFires(nowParts, scheduleNow, last)
    THEN Launch("sched", DateStr(nowParts))
    ELSE /\ history' = IF isReportTime(nowParts, scheduleNow.weekday, scheduleNow.hour,
                                       scheduleNow.minute)
                       THEN Append(history, SuppressedEvent(DateStr(nowParts), scheduleNow))
                       ELSE history
         /\ UNCHANGED <<gathers, metaLastReportDate, cycles, nCycles>>

\* The callback of setInterval.
Tick ==
    /\ now + TimerSkew >= due
    /\ due' = now + TICK_MS
    /\ TickAt(getTorontoDateParts(now), getScheduleMeta(metaSchedule), metaLastReportDate)
    /\ UNCHANGED <<now, advances, metaSchedule, subscribers, webhook>>

\* ------------------------------------------------------------------------
\* Interaction handlers

\* run_weekly_report_now: the handler replies, then runs the cycle (the step is
\* the handler going on after the awaited reply); it never touches the marker.
RunWeeklyReportNow(allowed) ==
    /\ IF allowed THEN Launch("manual", NoDate)
       ELSE UNCHANGED <<gathers, metaLastReportDate, cycles, nCycles, history>>
    /\ UNCHANGED <<now, advances, metaSchedule, subscribers, webhook, due>>

\* Lines 807-810 and 811: the first reply of run_weekly_report_now.
RunWeeklyReportNowReply(allowed) == IF allowed THEN "running" ELSE "permission"

\* set_report_schedule with a range check that lets weekday 7 through.
SetScheduleResultUpTo7(allowed, weekday, hour, minute, stored, last) ==
    IF ~allowed THEN [schedule |-> stored, last |-> last, reply |-> "permission"]
    ELSE IF weekday = NoNumber \/ hour = NoNumber \/ minute = NoNumber
    THEN [schedule |-> stored, last |-> last, reply |-> "invalid arguments"]
    ELSE IF weekday < 0 \/ weekday > 7 \/ hour < 0 \/ hour > 23 \/ minute < 0 \/ minute > 59
    THEN [schedule |-> stored, last |-> last, reply |-> "invalid range"]
    ELSE [schedule |-> [weekday |-> weekday, hour |-> hour, minute |-> minute],
          last |-> NoDate, reply |-> "updated"]

\* set_report_schedule: the stored schedule and marker after it, and the reply.
SetScheduleResult(allowed, weekday, hour, minute, stored, last) ==
    IF ~allowed THEN [schedule |-> stored, last |-> last, reply |-> "permission"]
    ELSE IF weekday = NoNumber \/ hour = NoNumber \/ minute = NoNumber
    THEN [schedule |-> stored, last |-> last, reply |-> "invalid arguments"]
    ELSE IF weekday < 0 \/ weekday > 6 \/ hour < 0 \/ hour > 23 \/ minute < 0 \/ minute > 59
    THEN [schedule |-> stored, last |-> last, reply |-> "invalid range"]
    ELSE [schedule |-> [weekday |-> weekday, hour |-> hour, minute |-> minute],
          last |-> NoDate, reply |-> "updated"]

SetReportSchedule(allowed, weekday, hour, minute) ==
    /\ \E res \in {SetScheduleResult(allowed, weekday, hour, minute,
                                     metaSchedule, metaLastReportDate)} :
         /\ metaSchedule' = res.schedule
         /\ metaLastReportDate' = res.last
    /\ UNCHANGED <<now, advances, gathers, subscribers, webhook, due, cycles, nCycles, history>>

\* reset_week without the check of the member's permissions.
ResetWeekResultUnchecked(allowed, rows, t) ==
    [rows |-> deleteSince(rows, sevenDaysAgoTs(t)),
     reply |-> "reset",
     deleted |-> Cardinality(rows) - Cardinality(deleteSince(rows, sevenDaysAgoTs(t)))]

\* reset_week: the ledger after it and the reply, with info.changes, the
\* number of rows the statement deleted.
ResetWeekResult(allowed, rows, t) ==
    IF ~allowed THEN [rows |-> rows, reply |-> "permission", deleted |-> 0]
    ELSE [rows |-> deleteSince(rows, sevenDaysAgoTs(t)),
          reply |-> "reset",
          deleted |-> Cardinality(rows) - Cardinality(deleteSince(rows, sevenDaysAgoTs(t)))]
ResetWeek(allowed) ==
    /\ gathers' = ResetWeekResult(allowed, gathers, now).rows
    /\ UNCHANGED <<now, advances, metaSchedule, metaLastReportDate, subscribers,
                   webhook, due, cycles, nCycles, history>>

\* subscribe_reports / unsubscribe_reports
SubscribeReports(uid) ==
    /\ subscribers' = subscribers \cup {uid}
    /\ UNCHANGED <<now, advances, gathers, metaSchedule, metaLastReportDate,
                   webhook, due, cycles, nCycles, history>>
UnsubscribeReports(uid) ==
    /\ subscribers' = subscribers \ {uid}
    /\ UNCHANGED <<now, advances, gathers, metaSchedule, metaLastReportDate,
                   webhook, due, cycles, nCycles, history>>

\* weekly_totals: the rows and the totals are read, then the names are
\* resolved and the embeds sent; "No data in the last 7 days." ends it when
\* there is no row.
WeeklyTotals ==
    /\ \E perUser \in weeklyPerUser(gathers, sevenDaysAgoTs(now)) :
         IF perUser = <<>>
         THEN UNCHANGED <<gathers, metaLastReportDate, cycles, nCycles, history>>
         ELSE LaunchRun([NewCycle(nCycles + 1, "weekly_totals", NoDate,
                                  getScheduleMeta(metaSchedule), gathers, now, perUser)
                            EXCEPT !.overview =
                                [herdBuyCost |-> herdTotal(gathers, sevenDaysAgoTs(now),
                                                           "herd_buy"),
                                 herdSellRevenue |-> herdTotal(gathers, sevenDaysAgoTs(now),
                                                               "herd_sell")]])
    /\ UNCHANGED <<now, advances, metaSchedule, subscribers, webhook, due>>

\* leaderboard: "No data yet." ends it when there is no row.
Leaderboard(since, limitOption) ==
    /\ \E top \in leaderboardRows(gathers, now, since, limitOption) :
         IF top = <<>>
         THEN UNCHANGED <<gathers, metaLastReportDate, cycles, nCycles, history>>
         ELSE LaunchRun(NewCycle(nCycles + 1, "leaderboard", NoDate,
                                 getScheduleMeta(metaSchedule), gathers, now, top))
    /\ UNCHANGED <<now, advances, metaSchedule, subscribers, webhook, due>>

\* ------------------------------------------------------------------------
\* The whole program

SchedTexts == {<<Mention("U2", 20)>> \o CoreBody}
ScheduleArgs == {<<1, 9, 1>>, <<7, 9, 0>>, <<NoNumber, 9, 0>>}
Users == {"U9"}

\* Time passes, to the millisecond or nearly to the next tick; the tick is
\* never later than TimerDelay.
TimePasses == \E d \in {1, TICK_MS - 1} : now + d <= due + TimerDelay /\ Elapse(d)
TimerFires == Tick
CycleGoesOn == \E c \in cycles, ok \in BOOLEAN : Resume(c, ok)
Command ==
    \/ \E allowed \in BOOLEAN : RunWeeklyReportNow(allowed)
    \/ \E allowed \in BOOLEAN, a \in ScheduleArgs : SetReportSchedule(allowed, a[1], a[2], a[3])
    \/ \E allowed \in BOOLEAN : ResetWeek(allowed)
    \/ \E uid \in Users : SubscribeReports(uid)
    \/ \E uid \in Users : UnsubscribeReports(uid)
SchedMessages == {[id |-> "m1", channelId |-> listenChannelId, content |-> t, embeds |-> <<>>] :
                    t \in SchedTexts}

\* The ledger file outlives the process: it holds what the listener stored
\* for a message of the hour before.
StoredRows == UNION {messageCreateResult({}, StartOfRun - HOUR_MS, message).rows :
                       message \in SchedMessages}
Init == Started(StoredRows)

Next == TimerFires \/ CycleGoesOn \/ Command \/ TimePasses
Spec == Init /\ [][Next]_vars

\* ------------------------------------------------------------------------
\* The ledger under all that writes it: messages, reset_week, and the prune
\* of scheduled and manual runs.  It starts with rows of eight days ago, of
\* seven days ago to the millisecond, and of the last hour.
LedgerTexts ==
    {<<Mention("U1", 17)>> \o CoreBody,
     <<Mention("U1", 17), Word("Sold"), Num(4), Word("Bison"), Word("for"), Dollars960>>}
LedgerMessages ==
    {[id |-> i, channelId |-> listenChannelId, content |-> t, embeds |-> <<>>] :
        i \in {"m1", "m-hour"}, t \in LedgerTexts}
\* The clock goes on by a millisecond: past the minute's start, past the
\* week since a row.
LedgerTime == advances < MaxElapses /\ Elapse(1)
OldRows ==
    UNION {messageCreateResult({}, StartOfRun - 8 * DAY_MS,
              [id |-> "m-old", channelId |-> listenChannelId,
               content |-> <<Mention("U2", 20)>> \o CoreBody, embeds |-> <<>>]).rows,
           messageCreateResult({}, StartOfRun - 7 * DAY_MS,
              [id |-> "m-week", channelId |-> listenChannelId,
               content |-> <<Mention("U2", 20)>> \o CoreBody, embeds |-> <<>>]).rows,
           messageCreateResult({}, StartOfRun - HOUR_MS,
              [id |-> "m-hour", channelId |-> listenChannelId,
               content |-> <<Mention("U1", 17)>> \o CoreBody, embeds |-> <<>>]).rows}
LedgerInit ==
    /\ now = StartOfRun
    /\ advances = 0
    /\ gathers = OldRows
    /\ metaSchedule = NoSchedule
    /\ metaLastReportDate = NoDate
    /\ subscribers = Users
    /\ webhook \in BOOLEAN
    /\ due = StartOfRun
    /\ cycles = {}
    /\ nCycles = 0
    /\ history = <<>>
LedgerMessage == \E message \in LedgerMessages : MessageCreate(message)
\* A run is started by the tick or by a command when none is in progress.
LedgerTick == cycles = {} /\ Tick
LedgerCommand ==
    \/ \E allowed \in BOOLEAN : ResetWeek(allowed)
    \/ cycles = {} /\ RunWeeklyReportNow(TRUE)
    \/ cycles = {} /\ WeeklyTotals
LedgerNext == LedgerMessage \/ LedgerCommand \/ LedgerTick \/ CycleGoesOn \/ LedgerTime
LedgerSpec == LedgerInit /\ [][LedgerNext]_vars

\* ------------------------------------------------------------------------
\* Reports of larger ledgers: one manual run, /weekly_totals or /leaderboard
\* on a ledger of up to MaxActors actors, with failing lookups and sends.
MaxActors == 11
MaxFailures == 2
MaxReports == 1

ActorId(k) == "A" \o ToString(k)
LedgerRow(k, ts, suffix, type, amount, value, subtype) ==
    [ts |-> ts, channel_id |-> listenChannelId, message_id |-> ActorId(k) \o suffix,
     discord_id |-> ActorId(k), ranch_id |-> NoNumber, item_type |-> type,
     amount |-> amount, value |-> value, subtype |-> subtype]
\* What the listener has stored of actor k: eggs in the last hours, for
\* some milk and herd trades; of actor 1 also eggs of eight days ago.
ActorRows(k) ==
    {LedgerRow(k, StartOfRun - k * MINUTE_MS, "-e", "eggs", 2 * k, 0, Null)}
    \cup (IF k % 2 = 0
          THEN {LedgerRow(k, StartOfRun - k * MINUTE_MS - 1, "-m", "milk", k, 0, Null)}
          ELSE {})
    \cup (IF k % 3 = 1
          THEN {LedgerRow(k, StartOfRun - HOUR_MS, "-s", "herd_sell", 4, 96000, "bison")}
          ELSE {})
    \cup (IF k % 3 # 2
          THEN {LedgerRow(k, StartOfRun - DAY_MS, "-b", "herd_buy", 5, 30000, "bison")}
          ELSE {})
    \cup (IF k = 1
          THEN {LedgerRow(k, StartOfRun - 8 * DAY_MS, "-o", "eggs", 50, 0, Null)}
          ELSE {})
LedgerOf(n) == UNION {ActorRows(k) : k \in 1..n}
ActorCounts == {0, 1, 2} \cup ((MaxActors - 2)..MaxActors)
\* A webhook, two subscribers, or neither.
Targets == {<<TRUE, {}>>, <<FALSE, {"S1", "S2"}>>, <<FALSE, {}>>}

ReportInit ==
    /\ now = StartOfRun
    /\ advances = 0
    /\ gathers \in {LedgerOf(n) : n \in ActorCounts}
    /\ metaSchedule = NoSchedule
    /\ metaLastReportDate = NoDate
    /\ \E target \in Targets : webhook = target[1] /\ subscribers = target[2]
    /\ due = StartOfRun
    /\ cycles = {}
    /\ nCycles = 0
    /\ history = <<>>

Failures(c) ==
    Cardinality(c.failed) + Len(SelectSeq(c.displays, LAMBDA how : how = "id"))
ReportRun == cycles = {} /\ nCycles < MaxReports /\ RunWeeklyReportNow(TRUE)
ReportCommand ==
    /\ cycles = {}
    /\ nCycles < MaxReports
    /\ \/ WeeklyTotals
       \/ \E limitOption \in {NoLimitOption, LimitOption(1), LimitOption(10)} :
            Leaderboard(NoSinceOption, limitOption)
ReportGoesOn ==
    \E c \in cycles, ok \in BOOLEAN : (ok \/ Failures(c) < MaxFailures) /\ Resume(c, ok)
ReportNext == ReportRun \/ ReportCommand \/ ReportGoesOn
ReportSpec == ReportInit /\ [][ReportNext]_vars

\* ------------------------------------------------------------------------
\* Properties of the scheduler

Today == DateStr(getTorontoDateParts(now))
InSlotOf(nowParts, scheduleNow) ==
    isReportTime(nowParts, scheduleNow.weekday, scheduleNow.hour, scheduleNow.minute)
\* The clock is inside the minute of the schedule in force.
InSlotNow == InSlotOf(getTorontoDateParts(now), getScheduleMeta(metaSchedule))
\* The tick, were it to run now, would run the cycle.
TickWouldFire ==
    TickFires(getTorontoDateParts(now), getScheduleMeta(metaSchedule), metaLastReportDate)

IsSchedStart(ev) == ev.e = "start" /\ ev.kind = "sched"
IsSchedEnd(ev) == ev.e = "end" /\ ev.kind = "sched"
SchedStartsOn(date) == {i \in DOMAIN history : IsSchedStart(history[i]) /\ history[i].date = date}
\* This step logs an event, and ev is the first it logs.
Logs(ev) == Len(history') > Len(history) /\ history'[Len(history) + 1] = ev
LastLogged == history'[Len(history')]

\* The first occurrence of the default slot: Monday 09:00:00.000.
FirstSlot == 9 * HOUR_MS

\* C1: the scheduled cycle is started at most once per Toronto calendar date,
\* whatever the interleaving of the ticks (a tick may start while the run an
\* earlier tick started still awaits its delivery).
C1_AtMostOneScheduledRunPerDate ==
    \A i, j \in DOMAIN history :
        (IsSchedStart(history[i]) /\ IsSchedStart(history[j])
            /\ history[i].date = history[j].date) => i = j

\* C2: the marker holds a date only after a scheduled cycle of that date ran
\* to completion without error: a run in which a step failed, or which
\* stopped before the prune, leaves the marker as it was.
C2_MarkerOnlyAfterCompletedCycle ==
    metaLastReportDate # NoDate =>
        \E i \in DOMAIN history :
            /\ IsSchedEnd(history[i])
            /\ history[i].date = metaLastReportDate
            /\ history[i].outcome = "pruned"

\* A step of a manual run: it starts (and perhaps ends at once), goes on, or ends.
ManualStep ==
    \/ Len(history') > Len(history) /\ history'[Len(history) + 1].kind = "manual"
    \/ \E c \in cycles : c.kind = "manual" /\ c \notin cycles'
OnlyManualRuns == \A i \in DOMAIN history : history[i].kind = "manual"

\* C3: no step of a run started by run_weekly_report_now changes the marker
\* or the schedule; so while only manual runs have taken place, a tick inside
\* the slot runs the scheduled cycle.
C3_ManualRunLeavesMarkerAndSchedule ==
    /\ [][ManualStep => UNCHANGED <<metaSchedule, metaLastReportDate>>]_vars
    /\ [](OnlyManualRuns /\ InSlotNow => TickWouldFire)
\* A manual run has pruned and ended, and a later tick of the same date has
\* started the scheduled cycle.
C3_Witness ==
    \E i, j \in DOMAIN history :
        /\ i < j
        /\ history[i].e = "end" /\ history[i].kind = "manual"
        /\ history[i].outcome = "pruned"
        /\ IsSchedStart(history[j]) /\ history[j].date = Today

\* C4: once set_report_schedule has succeeded, a tick inside the new slot runs
\* the cycle: as long as no tick has done so under the new schedule, the
\* marker does not stand in its way.
C4_TickInNewSlotFires ==
    (/\ metaSchedule # NoSchedule
     /\ InSlotNow
     /\ \A i \in DOMAIN history :
            history[i].kind = "sched" => history[i].slot # metaSchedule)
        => TickWouldFire

\* C5: a tick runs the cycle exactly when the clock is inside the slot and the
\* marker differs from today's date (so a tick outside the slot never does,
\* and neither does a tick that follows, in the same minute, the tick whose
\* run set the marker); and when the scheduled run ends, the marker is its date.
C5_TickRunsCycleOncePerSlot ==
    /\ [][due' # due =>
            ((\E ev \in {history'[k] : k \in DOMAIN history'} :
                    Logs(ev) /\ IsSchedStart(ev) /\ ev.date = Today)
                <=> (InSlotNow /\ metaLastReportDate # Today))]_vars
    /\ [][(Len(history') > Len(history) /\ IsSchedEnd(LastLogged))
            => metaLastReportDate' = LastLogged.date]_vars
\* A tick inside the slot has run the cycle, the run has ended with the marker
\* at today's date, and a following tick of the same minute was suppressed.
C5_Witness ==
    /\ metaLastReportDate = Today
    /\ \E i, j, k \in DOMAIN history :
        /\ i < j /\ j < k
        /\ IsSchedStart(history[i]) /\ history[i].date = Today
        /\ IsSchedEnd(history[j]) /\ history[j].date = Today
        /\ history[k].e = "suppressed" /\ history[k].date = Today
    /\ Cardinality(SchedStartsOn(Today)) = 1

\* C6: with the ticks 60 s apart and never more than TimerDelay late, every
\* occurrence of the slot leads to one scheduled run: when the minute of the
\* first slot is over (the schedule never changed, the bound on the runs not
\* reached), the cycle has been started for that date, and once only.
C6_NoSlotSkipped ==
    (metaSchedule = NoSchedule /\ nCycles < MaxCycles /\ now >= FirstSlot + MINUTE_MS)
        => Cardinality(SchedStartsOn(Today)) = 1

\* ------------------------------------------------------------------------
\* Properties of the message path (checked under MsgSpec)

ListenedMessages == {m \in Messages(MsgTexts) : m.channelId = listenChannelId}
IdStored(id) == \E r \in gathers : r.message_id = id

\* C7: the ledger holds at most one row per source-message id, and the
\* handler run on a message whose id is stored leaves the ledger as it is
\* and ends in no logged error, whatever the text.
C7_OneEventPerMessage ==
    /\ \A r1, r2 \in gathers : r1.message_id = r2.message_id => r1 = r2
    /\ \A m \in Messages(MsgTexts) :
        IdStored(m.id) =>
            /\ messageCreateResult(gathers, now, m).rows = gathers
            /\ messageCreateResult(gathers, now, m).log # "ERROR in messageCreate"
\* A stored id comes again with an event that is valid and no recent
\* duplicate: only the UNIQUE constraint keeps it out.
C7_Witness ==
    \E m \in Messages(MsgTexts) :
        /\ IdStored(m.id)
        /\ messageCreateResult(gathers, now, m).log = "UNIQUE_IGNORED"

\* The duplicate of the claim: a stored row of the same channel, item type,
\* amount and actor, at most 10000 ms old.
RecentSame(m, parsed) ==
    \E r \in gathers :
        /\ r.channel_id = m.channelId
        /\ r.item_type = parsed.item_type
        /\ r.amount = parsed.amount
        /\ r.discord_id = parsed.discord_id
        /\ r.ts >= now - 10000
Validated(m) ==
    /\ m.channelId = listenChannelId
    /\ Parsed[textUsed(m)] # NoParse
    /\ Parsed[textUsed(m)].discord_id # Null
Appended(m) ==
    /\ ~IdStored(m.id)
    /\ \E r \in messageCreateResult(gathers, now, m).rows : r.message_id = m.id /\ r.ts = now
    /\ Cardinality(messageCreateResult(gathers, now, m).rows) = Cardinality(gathers) + 1

\* C8 as claimed: a parsed, validated event is appended if and only if no
\* such duplicate is stored.
C8_AppendedIffNoRecentSame ==
    \A m \in Messages(MsgTexts) :
        Validated(m) => (Appended(m) <=> ~RecentSame(m, Parsed[textUsed(m)]))
\* C8 as amended: ... if and only if no such duplicate is stored and no row
\* has the message's id.
C8_AppendedIffNoRecentSameAndNewId ==
    \A m \in Messages(MsgTexts) :
        Validated(m) =>
            (Appended(m) <=> (~RecentSame(m, Parsed[textUsed(m)]) /\ ~IdStored(m.id)))
\* Two rows equal in channel, item type, amount and actor, 11 s apart, and
\* an event differing from them only in ranch id that is suppressed now.
C8_Witness ==
    /\ \E r1, r2 \in gathers :
        /\ r1.channel_id = r2.channel_id /\ r1.item_type = r2.item_type
        /\ r1.amount = r2.amount /\ r1.discord_id = r2.discord_id
        /\ r2.ts = r1.ts + 11000
    /\ \E m \in ListenedMessages :
        /\ messageCreateResult(gathers, now, m).log = "DUPLICATE_SKIPPED"
        /\ \A r \in gathers : r.ranch_id # Parsed[textUsed(m)].ranch_id

HasMentionToken(text) ==
    \E i \in 1..Len(text) : text[i].k = "mention" /\ text[i].n \in 17..20

\* C9: every row has an actor id, and a message without a mention token of
\* 17 to 20 digits is not stored, with or without an actor name.
C9_RowsHaveActor ==
    /\ \A r \in gathers : r.discord_id # Null
    /\ \A m \in Messages(MsgTexts) :
        ~HasMentionToken(textUsed(m)) => messageCreateResult(gathers, now, m).rows = gathers
\* Rows are stored, and unmentioned events with the name "unknown" and with
\* another name are skipped.
C9_Witness ==
    /\ gathers # {}
    /\ \E m \in ListenedMessages :
        messageCreateResult(gathers, now, m).log = "SKIP_UNKNOWN_ACTOR"
    /\ \E m \in ListenedMessages :
        /\ messageCreateResult(gathers, now, m).log = "SKIP_NO_MENTION"
        /\ extractActorName(textUsed(m)) # Null

\* C10: every row has an amount in 1..100000 and a value >= 0; a candidate
\* with no amount, amount 0 or amount >= 100001 leaves the ledger as it is,
\* and one with amount 100000 that is attributed, new and no duplicate is
\* appended.
C10_AmountBounds ==
    /\ \A r \in gathers : r.amount \in 1..100000 /\ r.value >= 0
    /\ \A m \in Messages(MsgTexts) :
        /\ (\/ extractItemAndAmount(textUsed(m)) = NoItem
            \/ extractItemAndAmount(textUsed(m)).amount = 0
            \/ extractItemAndAmount(textUsed(m)).amount >= 100001)
           => messageCreateResult(gathers, now, m).rows = gathers
        /\ (/\ extractItemAndAmount(textUsed(m)).amount = 100000
            /\ m.channelId = listenChannelId
            /\ HasMentionToken(textUsed(m))
            /\ ~IdStored(m.id)
            /\ ~RecentSame(m, Parsed[textUsed(m)]))
           => Appended(m)
\* A row with amount 100000 is stored while a candidate of 100001 is offered.
C10_Witness ==
    /\ \E r \in gathers : r.amount = 100000
    /\ \E m \in ListenedMessages :
        /\ extractItemAndAmount(textUsed(m)).amount = 100001
        /\ HasMentionToken(textUsed(m))
        /\ ~IdStored(m.id)

\* C13: a message of another channel than the configured one leaves the
\* ledger as it is, whatever its text, and every row carries the configured
\* channel id.
C13_OnlyListenChannel ==
    /\ \A r \in gathers : r.channel_id = listenChannelId
    /\ \A m \in Messages(MsgTexts) :
        m.channelId # listenChannelId => messageCreateResult(gathers, now, m).rows = gathers
\* Rows are stored, and a message of another channel is offered whose event
\* is valid, attributed, new and no duplicate.
C13_Witness ==
    /\ gathers # {}
    /\ \E m \in Messages(MsgTexts) :
        /\ m.channelId # listenChannelId
        /\ Parsed[textUsed(m)] # NoParse
        /\ Parsed[textUsed(m)].discord_id # Null
        /\ ~IdStored(m.id)
        /\ \A r \in gathers : r.discord_id # Parsed[textUsed(m)].discord_id

\* Where the numbers of an event come from: the token whose digits
\* extractRanchId captured, and the token holding the digits that became
\* the amount (0 when there is none).
RanchTokenAt(a, b) == IF a # 0 THEN a + 2 ELSE IF b # 0 THEN b + 1 ELSE 0
RanchToken(text) ==
    RanchTokenAt(FirstIndex(Len(text), LAMBDA i : RanchWithIdAt(text, i)),
                 FirstIndex(Len(text), LAMBDA i : RanchPlainAt(text, i)))
MaxOrZero(S) == IF S = {} THEN 0 ELSE CHOOSE i \in S : \A j \in S : i >= j
KeptRun(tok, ranchId) ==
    \E j \in 1..Len(TokenRuns(tok)) :
        ranchId \in {NoNumber, 0} \/ TokenRuns(tok)[j] # ranchId
LastCandidateToken(text, ranchId) ==
    MaxOrZero({i \in 1..Len(text) : KeptRun(text[i], ranchId)})
AmountTokenAt(text, near, herd) ==
    IF near # 0 THEN near
    ELSE IF herd # 0 THEN herd + 1
    ELSE LastCandidateToken(text, extractRanchId(text))
AmountToken(text) ==
    AmountTokenAt(text, FirstIndex(Len(text), LAMBDA i : NearAt(text, i)),
                        FirstIndex(Len(text), LAMBDA i : HerdAt(text, i)))

\* C14: the amount of an event stored with a ranch id is not taken from the
\* number token that was read as the ranch id.
C14_AmountNotRanchToken ==
    \A m \in ListenedMessages :
        (/\ messageCreateResult(gathers, now, m).log = "LOGGED"
         /\ Parsed[textUsed(m)].ranch_id # NoNumber)
        => AmountToken(textUsed(m)) # RanchToken(textUsed(m))

HasNear(text) == \E i \in 1..Len(text) : NearAt(text, i)
HasHerd(text) == \E i \in 1..Len(text) : HerdAt(text, i)
MentionsEggsOrMilk(text) == \E i \in 1..Len(text) : IsWord(text[i], {"egg", "eggs", "milk"})
RuleOrder(text, item) ==
    /\ HasNear(text) =>
        item.item_type \in {"eggs", "milk"} /\ item.value = 0 /\ item.subtype = Null
    /\ (~HasNear(text) /\ HasHerd(text)) =>
        item.item_type \in {"herd_buy", "herd_sell"} /\ item.subtype # Null
    /\ item.item_type \in {"herd_buy", "herd_sell"} => (~HasNear(text) /\ HasHerd(text))
    /\ (~HasNear(text) /\ ~HasHerd(text)) =>
        IF MentionsEggsOrMilk(text)
        THEN item = NoItem \/ (item.item_type \in {"eggs", "milk"} /\ item.value = 0
                               /\ item.subtype = Null)
        ELSE item = NoItem

\* C15: an integer followed by egg(s) or milk makes an eggs/milk event with
\* value 0 and no subtype, also when a whole bought/sold phrase is in the
\* text; the herd rule applies only without such a pair, the fallback only
\* when neither is there; rows are stored as the rules say.
C15_RulePriority ==
    /\ \A m \in ListenedMessages : RuleOrder(textUsed(m), extractItemAndAmount(textUsed(m)))
    /\ \A m \in ListenedMessages :
        messageCreateResult(gathers, now, m).log = "LOGGED" =>
            \E r \in messageCreateResult(gathers, now, m).rows :
                r.message_id = m.id /\ RuleOrder(textUsed(m), r)
\* A row of 7 eggs is stored from a text that also holds "Sold 4 Bison for
\* 960.0$", and a row of a herd event from a text that mentions eggs.
C15_Witness ==
    /\ \E r \in gathers : r.item_type = "eggs" /\ r.amount = 7 /\ r.value = 0
    /\ \E m \in ListenedMessages :
        /\ HasNear(textUsed(m)) /\ HasHerd(textUsed(m))
        /\ Parsed[textUsed(m)].amount = 7
    /\ \E r \in gathers : r.item_type = "herd_buy"

\* Options of /leaderboard.
SinceOptions ==
    {NoSinceOption, SinceOption("24h", 24, "h"), SinceOption("0h", 0, "h"),
     SinceOption("7D", 7, "d"), SinceOption("week", 0, "")}
RequestedLimits == {0 - 1, 0, 1, 2, 200, 201}

Items(g) == g.eggs + g.milk
Clamp(n) == IF n < 1 THEN 1 ELSE IF n > 200 THEN 200 ELSE n
ActorsSince(since) ==
    {r.discord_id : r \in {q \in gathers : ~since.given \/ q.ts >= since.ts}}
ItemsOfSince(uid, since) ==
    SumAmount({r \in gathers : r.discord_id = uid /\ (~since.given \/ r.ts >= since.ts)}, "eggs")
    + SumAmount({r \in gathers : r.discord_id = uid /\ (~since.given \/ r.ts >= since.ts)}, "milk")
LimitRespected(result, limit, since) ==
    /\ Len(result) <= Clamp(limit)
    /\ \A i \in 1..Len(result) : result[i].discord_id # Null
    /\ \A i, j \in 1..Len(result) : i < j => Items(result[i]) >= Items(result[j])
    /\ (limit = 1 /\ ActorsSince(since) # {}) =>
        /\ Len(result) = 1
        /\ \A uid \in ActorsSince(since) : Items(result[1]) >= ItemsOfSince(uid, since)

\* C16: the leaderboard returns at most the requested limit clamped to
\* 1..200 rows, of actors only, in descending order of eggs + milk, and with
\* limit 1 the one actor of the greatest total.
C16_LeaderboardLimit ==
    \A since \in SinceOptions, limit \in RequestedLimits :
        \A result \in leaderboardRows(gathers, now, since, LimitOption(limit)) :
            LimitRespected(result, limit, parseSinceToTs(since, now))

FirstSeen(uid) ==
    CHOOSE t \in {r.ts : r \in {q \in gathers : q.discord_id = uid}} :
        \A r \in {q \in gathers : q.discord_id = uid} : t <= r.ts
TiesInFirstSeenOrder(result) ==
    \A i, j \in 1..Len(result) :
        (i < j /\ Items(result[i]) = Items(result[j]))
        => FirstSeen(result[i].discord_id) <= FirstSeen(result[j].discord_id)

\* C17: in the results of leaderboard and of weekly_per_actor, actors of
\* equal eggs + milk stand in the order of their earliest rows.
C17_TiesInFirstSeenOrder ==
    /\ \A result \in leaderboardRows(gathers, now, NoSinceOption, NoLimitOption) :
        TiesInFirstSeenOrder(result)
    /\ \A result \in weeklyPerUser(gathers, sevenDaysAgoTs(now)) :
        TiesInFirstSeenOrder(result)

\* ------------------------------------------------------------------------
\* Properties of the reports

\* The rows a run has aggregated for a block: those of its window (the
\* leaderboard without "since" has none), for a person's block the person's.
WindowOf(c) == IF c.kind = "leaderboard" THEN gathers ELSE {r \in gathers : r.ts >= c.since_ts}
RowsOfBlock(c, b) ==
    IF b.kind = "overview" THEN WindowOf(c)
    ELSE {r \in WindowOf(c) : b.display \in {r.discord_id, "nick-" \o r.discord_id}}
FiguresRight(S, b) ==
    /\ b.eggs = SumAmount(S, "eggs")
    /\ b.milk = SumAmount(S, "milk")
    /\ b.herdSellRevenue = SumValue(S, "herd_sell")
    /\ b.herdBuyCost = SumValue(S, "herd_buy")
    /\ b.herdNet = b.herdSellRevenue - b.herdBuyCost
    /\ b.totalRevenue = (b.eggs + b.milk) * 125 + b.herdNet

\* C18: in every block of a report, the summary and each person's, of the
\* weekly cycle, of weekly_totals and of the leaderboard, herd net is the
\* sell revenue less the buy cost and the total revenue is 1.25 a piece for
\* eggs and milk plus the herd net, all of them the sums of the rows of the
\* window.
C18_ReportFigures ==
    \A c \in cycles : \A j \in 1..Len(c.embeds) :
        FiguresRight(RowsOfBlock(c, c.embeds[j]), c.embeds[j])
\* A manual run has composed a summary and persons' blocks, one of a
\* negative and one of a positive herd net.
C18_Witness ==
    \E c \in cycles :
        /\ c.kind = "manual"
        /\ c.embeds # <<>> /\ c.embeds[1].kind = "overview" /\ c.embeds[1].herdNet # 0
        /\ \E j, k \in 2..Len(c.embeds) : c.embeds[j].herdNet < 0 /\ c.embeds[k].herdNet > 0

RECURSIVE EmbedsSent(_)
EmbedsSent(sends) ==
    IF sends = <<>> THEN <<>> ELSE sends[1].embeds \o EmbedsSent(Tail(sends))
InBatches(c) == c.pc \in {"webhook", "followUp"}
StillRunning(c) == \E d \in cycles' : d.id = c.id
NoEmbeds ==
    RunOn(NewCycle(0, "leaderboard", NoDate, getScheduleMeta(NoSchedule), {}, 0, <<>>),
          {}, FALSE, <<>>)
BatchesSoFar(c, flat) ==
    /\ Len(c.sent) = c.i
    /\ c.i <= c.batches
    /\ \A k \in 1..Len(c.sent) : Len(c.sent[k].embeds) \in 1..10
    /\ flat = SubSeq(c.embeds, 1, Len(flat))
    /\ (c.i = c.batches) = (flat = c.embeds)

FirstPerson(c) == IF c.kind = "leaderboard" THEN 0 ELSE 1
NamesOrIds(c) ==
    /\ Len(c.displays) = Len(c.rows)
    /\ \A j \in 1..Len(c.rows) :
        (c.displays[j] = "id") = (c.embeds[FirstPerson(c) + j].display = c.rows[j].discord_id)
EachItemOnce(c) ==
    /\ Len(c.sent) = c.i
    /\ \A k, l \in 1..Len(c.sent) : c.sent[k] = c.sent[l] => k = l
    /\ c.failed \subseteq 1..Len(c.sent)
    /\ c.pc = "dm" => \A k \in 1..Len(c.sent) : c.sent[k].to = c.subs[k]
ItemsLeft(c) ==
    \/ c.pc = "names" /\ c.i < Len(c.rows)
    \/ InBatches(c) /\ c.i < c.batches
    \/ c.pc = "dm" /\ c.i < Len(c.subs)
NextItem(c, d) ==
    /\ d.pc = c.pc
    /\ d.i = c.i + 1
    /\ c.pc = "names" => Len(d.displays) = Len(c.displays) + 1
    /\ c.pc # "names" => Len(d.sent) = Len(c.sent) + 1

PruneStep ==
    /\ Len(history') > Len(history)
    /\ LastLogged.e = "end"
    /\ LastLogged.kind \in {"sched", "manual"}
    /\ LastLogged.outcome \in {"pruned", "pruned-undelivered"}
\* The rows from a time on are gone, the others are as they were.
BulkDelete == \E r \in gathers : gathers' = {q \in gathers : q.ts < r.ts}
OneRowAdded ==
    /\ gathers \subseteq gathers'
    /\ Cardinality(gathers') = Cardinality(gathers) + 1

\* C11: a step that changes the ledger either adds one row to it, and is
\* the handling of a message, or removes the rows from some time on, and is
\* reset_week or the prune of a scheduled or manual run; the rows that stay
\* are unchanged; the handling of a message removes nothing.
C11_RowsAddedOrBulkDeleted ==
    /\ [][gathers' # gathers =>
            \/ OneRowAdded /\ \E message \in LedgerMessages : MessageCreate(message)
            \/ BulkDelete /\ (ResetWeek(TRUE) \/ PruneStep)]_vars
    /\ [][(\E message \in LedgerMessages : MessageCreate(message))
            => gathers \subseteq gathers']_vars
\* A scheduled and a manual run have pruned, a message has been stored
\* since, and rows of before are still there.
C11_Witness ==
    /\ \E i, j \in DOMAIN history :
        /\ history[i].e = "end" /\ history[i].kind = "sched"
        /\ history[i].outcome = "pruned"
        /\ history[j].e = "end" /\ history[j].kind = "manual"
        /\ history[j].outcome = "pruned"
    /\ \E r \in gathers : r.message_id = "m1"
    /\ \E r \in gathers : r.message_id = "m-old"

InWeek(r) == r.ts >= now - 7 * 24 * 60 * 60 * 1000

\* C12: reset_week by a member with the permission removes the rows of the
\* last seven days (ts >= now - 7 d) and no other, replies with their
\* number, and leaves schedule, marker and subscribers as they are.
C12_ResetWeek ==
    /\ [](ResetWeekResult(TRUE, gathers, now).deleted = Cardinality({r \in gathers : InWeek(r)}))
    /\ [](ResetWeekResult(TRUE, gathers, now).reply = "reset")
    /\ [][ResetWeek(TRUE) =>
            /\ gathers' = {r \in gathers : ~InWeek(r)}
            /\ UNCHANGED <<metaSchedule, metaLastReportDate, subscribers>>]_vars
\* No run has pruned, and of the rows of eight days ago, of a millisecond
\* more than seven days ago and of the last hour the first two are left:
\* the reset has removed the third, with a subscriber stored.
C12_Witness ==
    /\ {r.message_id : r \in gathers} = {"m-old", "m-week"}
    /\ \E r \in gathers : r.ts = now - 7 * 24 * 60 * 60 * 1000 - 1
    /\ \A i \in DOMAIN history : history[i].e # "end"
    /\ subscribers # {}

\* Requests of set_report_schedule that miss an argument or leave the ranges.
BadScheduleArgs ==
    {<<7, 9, 0>>, <<0 - 2, 9, 0>>, <<1, 24, 0>>, <<1, 0 - 2, 0>>, <<1, 9, 60>>,
     <<1, 9, 0 - 2>>, <<NoNumber, 9, 0>>, <<1, NoNumber, 0>>, <<1, 9, NoNumber>>}
InRange(schedule) ==
    /\ schedule.weekday \in 0..6
    /\ schedule.hour \in 0..23
    /\ schedule.minute \in 0..59

\* C23: the stored schedule, when there is one, has weekday 0..6, hour 0..23
\* and minute 0..59; set_report_schedule with a missing or out-of-range
\* argument is answered with a validation message and leaves the stored
\* schedule and the marker as they are.
C23_ScheduleInRange ==
    /\ [](metaSchedule # NoSchedule => InRange(metaSchedule))
    /\ [](InRange(getScheduleMeta(metaSchedule)))
    /\ [](\A a \in BadScheduleArgs \cup {a \in ScheduleArgs : a \notin {<<1, 9, 1>>}} :
            LET res == SetScheduleResult(TRUE, a[1], a[2], a[3],
                                         metaSchedule, metaLastReportDate)
            IN  /\ res.reply \in {"invalid arguments", "invalid range"}
                /\ res.schedule = metaSchedule
                /\ res.last = metaLastReportDate)
    /\ [][\A a \in ScheduleArgs :
            (a # <<1, 9, 1>> /\ SetReportSchedule(TRUE, a[1], a[2], a[3]))
            => UNCHANGED <<metaSchedule, metaLastReportDate>>]_vars
\* A schedule is stored and a scheduled run under it has set the marker:
\* what a request with a bad argument has to leave alone.
C23_Witness ==
    /\ metaSchedule = [weekday |-> 1, hour |-> 9, minute |-> 1]
    /\ metaLastReportDate # NoDate

\* C24: reset_week, set_report_schedule and run_weekly_report_now of a member
\* without the permission are answered with the permission message, leave
\* ledger, schedule, marker and subscribers as they are, and start no run,
\* so that no report is delivered.
C24_PermissionDenied ==
    /\ [](ResetWeekResult(FALSE, gathers, now).reply = "permission")
    /\ [](RunWeeklyReportNowReply(FALSE) = "permission")
    /\ [](\A a \in ScheduleArgs \cup BadScheduleArgs :
            SetScheduleResult(FALSE, a[1], a[2], a[3],
                              metaSchedule, metaLastReportDate).reply = "permission")
    /\ [][(\/ ResetWeek(FALSE)
           \/ RunWeeklyReportNow(FALSE)
           \/ \E a \in ScheduleArgs : SetReportSchedule(FALSE, a[1], a[2], a[3]))
          => UNCHANGED <<gathers, metaSchedule, metaLastReportDate, subscribers,
                         cycles, nCycles, history>>]_vars
\* There is what the three operations would change: a row of the last seven
\* days, a stored schedule, a marker and a subscriber, and no run going on.
C24_Witness ==
    /\ \E r \in gathers : InWeek(r)
    /\ metaSchedule # NoSchedule
    /\ metaLastReportDate # NoDate
    /\ subscribers # {}
    /\ cycles = {}


\* The sequences left when one integer equal to the ranch id is taken out
\* of the integers of a text (the integers themselves when none is equal).
DiscardOne(nums, ranchId) ==
    IF \E k \in 1..Len(nums) : nums[k] = ranchId
    THEN {SubSeq(nums, 1, k - 1) \o SubSeq(nums, k + 1, Len(nums)) :
            k \in {j \in 1..Len(nums) : nums[j] = ranchId}}
    ELSE {nums}
LastRemaining(nums, ranchId) ==
    {Last(c) : c \in {d \in DiscardOne(nums, ranchId) : d # <<>>}}
FallbackApplies(text) ==
    ~HasNear(text) /\ ~HasHerd(text) /\ MentionsEggsOrMilk(text)

\* C25: in the fallback rule one integer equal to the extracted ranch id is
\* discarded, if there is one, and the last of the remaining integers is the
\* amount: a count equal to the ranch id is still the amount, and a ranch id
\* of 0 is discarded like any other.
C25_FallbackDiscardsOne ==
    \A m \in ListenedMessages :
        (FallbackApplies(textUsed(m)) /\ extractRanchId(textUsed(m)) # NoNumber)
        => \E item \in {extractItemAndAmount(textUsed(m))},
              res \in {messageCreateResult(gathers, now, m)} :
            /\ IF LastRemaining(AllRuns(textUsed(m), 1), extractRanchId(textUsed(m))) = {}
               THEN item = NoItem
               ELSE /\ item # NoItem
                    /\ item.amount \in LastRemaining(AllRuns(textUsed(m), 1),
                                                     extractRanchId(textUsed(m)))
            /\ res.log = "LOGGED" =>
                 \E r \in res.rows :
                    /\ r.message_id = m.id
                    /\ r.amount \in LastRemaining(AllRuns(textUsed(m), 1),
                                                   extractRanchId(textUsed(m)))

\* Two messages of different ids whose events the duplicate check takes for
\* the same (SameEvent), and that the ledger gives no reason to refuse
\* (BothNew).
SameEvent(m1, m2) ==
    /\ m1.id # m2.id
    /\ Parsed[textUsed(m1)] # NoParse /\ Parsed[textUsed(m2)] # NoParse
    /\ Parsed[textUsed(m1)].discord_id # Null
    /\ Parsed[textUsed(m1)].discord_id = Parsed[textUsed(m2)].discord_id
    /\ Parsed[textUsed(m1)].item_type = Parsed[textUsed(m2)].item_type
    /\ Parsed[textUsed(m1)].amount = Parsed[textUsed(m2)].amount
\* Each pair once: TwoMessages takes the two in both orders.
SameEventPairs ==
    {p \in {m \in ListenedMessages : m.id = "m1"} \X ListenedMessages : SameEvent(p[1], p[2])}
\* The ledger holds neither of the two ids the messages have.
NoIdStored == \A id \in MsgIds : ~IdStored(id)
BothNew(m1, m2) ==
    /\ ~IdStored(m1.id) /\ ~IdStored(m2.id)
    /\ messageCreateResult(gathers, now, m1).log = "LOGGED"
    /\ messageCreateResult(gathers, now, m2).log = "LOGGED"
IdsOf(rows) == {r.message_id : r \in rows}
SameKey(r1, r2) ==
    /\ r1.channel_id = r2.channel_id /\ r1.item_type = r2.item_type
    /\ r1.amount = r2.amount /\ r1.discord_id = r2.discord_id

\* C22 as stated: of two messages with different ids and the same channel,
\* item type, amount and actor that arrive together, each of which alone
\* would pass the duplicate check, both can end up stored.
C22_BothCanBeStored ==
    NoIdStored => \A p \in SameEventPairs :
        BothNew(p[1], p[2]) =>
            \E rows \in TwoMessages(gathers, now, p[1], p[2]) :
                {p[1].id, p[2].id} \subseteq IdsOf(rows)

\* C22, amended: the duplicate check and the append of one message are done
\* before another message is handled; of two such messages arriving together
\* one is stored and the other suppressed, whichever comes first, and the
\* ledger never holds two rows of the same channel, item type, amount and
\* actor with timestamps 10 s or less apart.
C22_CheckAndAppendAtomic ==
    /\ NoIdStored => \A p \in SameEventPairs :
        BothNew(p[1], p[2]) =>
            \A rows \in TwoMessages(gathers, now, p[1], p[2]) :
                Cardinality(IdsOf(rows) \cap {p[1].id, p[2].id}) = 1
    /\ \A r1, r2 \in gathers :
        (SameKey(r1, r2) /\ r1.message_id # r2.message_id /\ r1.ts <= r2.ts)
        => r2.ts - r1.ts > DUPLICATE_WINDOW_MS
\* A row is stored, and a message of another id with the same event, five
\* seconds after it, is suppressed as a duplicate and not stored.
C22_Witness ==
    \E r \in gathers, m \in ListenedMessages :
        /\ r.ts = now - 5000
        /\ m.id # r.message_id /\ ~IdStored(m.id)
        /\ Parsed[textUsed(m)] # NoParse
        /\ SameKey(r, GatherRow(now, m, Parsed[textUsed(m)]))
        /\ messageCreateResult(gathers, now, m).log = "DUPLICATE_SKIPPED"


\* ------------------------------------------------------------------------
\* Properties of runs going on together (checked under Spec)

Running(kind) == \E c \in cycles : c.kind = kind
AggregatesLedger(c) ==
    /\ c.totals = sumTotalsSince(gathers, c.since_ts)
    /\ c.rows \in weeklyPerUser(gathers, c.since_ts)
StartsRun(kind) ==
    /\ nCycles' = nCycles + 1
    /\ Len(history') > Len(history)
    /\ history'[Len(history) + 1].e = "start"
    /\ history'[Len(history) + 1].kind = kind
    /\ \A c \in cycles' \ cycles : c.kind = kind /\ AggregatesLedger(c)
    /\ cycles \subseteq cycles'

\* C21: nothing keeps the tick and the manual trigger apart: while a
\* scheduled run is going on the manual trigger can start another, which
\* aggregates the ledger as it stands, the rows the first has read
\* included, and the tick starts a scheduled run while a manual one is
\* going on; the run that is there goes on as it was.
C21_NotMutuallyExclusive ==
    /\ []((Running("sched") /\ nCycles < MaxCycles) => ENABLED RunWeeklyReportNow(TRUE))
    /\ [][(Running("sched") /\ RunWeeklyReportNow(TRUE)) => StartsRun("manual")]_vars
    /\ [][(/\ Running("manual")
           /\ Tick
           /\ TickFires(getTorontoDateParts(now), getScheduleMeta(metaSchedule),
                        metaLastReportDate))
          => StartsRun("sched")]_vars
\* A scheduled and a manual run are going on at once; they have aggregated
\* the same rows of the ledger, which are still there, and each has handed
\* the webhook a batch holding the summary and the actor's block.
C21_Witness ==
    \E c1, c2 \in cycles :
        /\ c1.kind = "sched" /\ c2.kind = "manual"
        /\ c1.rows = c2.rows /\ c1.rows # <<>>
        /\ c1.totals = c2.totals /\ c1.totals.eggs > 0
        /\ AggregatesLedger(c1) /\ AggregatesLedger(c2)
        /\ c1.pc = "webhook" /\ c2.pc = "webhook"
        /\ Len(c1.sent) = 1 /\ Len(c2.sent) = 1
        /\ Len(c1.sent[1].embeds) = 2 /\ Len(c2.sent[1].embeds) = 2
        /\ c1.sent[1].embeds[1].eggs = c2.sent[1].embeds[1].eggs
        /\ c1.sent[1].embeds[2].kind = "person" /\ c2.sent[1].embeds[2].kind = "person"
        /\ c1.sent[1].embeds[2].eggs = c2.sent[1].embeds[2].eggs


\* ------------------------------------------------------------------------
\* Properties of a run and the messages stored during it (LedgerSpec)

\* What run c has aggregated covers the rows of D: for every actor of D the
\* run's row of that actor holds at least D's amounts and values, and the
\* run's totals at least D's eggs and milk.  It is so when every row of D
\* was read by the run.
CoversActor(g, d) ==
    /\ g.discord_id = d.discord_id
    /\ g.eggs >= d.eggs /\ g.milk >= d.milk
    /\ g.herd_bought >= d.herd_bought /\ g.herd_sold >= d.herd_sold
    /\ g.herd_buy_cost >= d.herd_buy_cost /\ g.herd_sell_revenue >= d.herd_sell_revenue
Covers(c, D) ==
    /\ \A d \in GroupByUser(D) : \E j \in DOMAIN c.rows : CoversActor(c.rows[j], d)
    /\ c.totals.eggs >= SumAmount(D, "eggs")
    /\ c.totals.milk >= SumAmount(D, "milk")

\* C26: the rows a run's prune deletes were counted in the aggregates of the
\* report the run composed, also when messages were stored while the run
\* awaited a name or a delivery.
C26_PrunedWereReported ==
    [][\A c \in cycles, ok \in BOOLEAN :
        (Resume(c, ok) /\ PruneStep) => Covers(c, gathers \ gathers')]_vars


\* The sums of the persons' blocks of a report.
RECURSIVE PersonsSum(_, _, _)
PersonsSum(embeds, j, field) ==
    IF j > Len(embeds) THEN 0
    ELSE (IF embeds[j].kind = "person" THEN embeds[j][field] ELSE 0)
         + PersonsSum(embeds, j + 1, field)
SummaryIsSumOfPersons(embeds) ==
    /\ embeds[1].kind = "overview"
    /\ embeds[1].eggs = PersonsSum(embeds, 2, "eggs")
    /\ embeds[1].milk = PersonsSum(embeds, 2, "milk")
    /\ embeds[1].herdNet = PersonsSum(embeds, 2, "herdNet")

\* C27: in every report a scheduled or manual run composes, the eggs, the
\* milk and the herd net of the summary are the sums of the persons' eggs,
\* milk and herd net, also when messages were stored while the run resolved
\* the names.
C27_SummaryIsSumOfPersons ==
    \A c \in cycles :
        (c.kind \in {"sched", "manual"} /\ c.embeds # <<>>) => SummaryIsSumOfPersons(c.embeds)


\* One at least of the sends of run c went through.
DeliveredSome(c) == \E k \in 1..Len(c.sent) : k \notin c.failed

\* C28: a scheduled or manual run prunes only when its report was handed to
\* a target: after a failed webhook post, after the DMs to all subscribers
\* failed, and with neither webhook nor subscriber the rows of the window
\* stay.
C28_PruneOnlyAfterDelivery ==
    /\ [][\A c \in cycles, ok \in BOOLEAN :
            (Resume(c, ok) /\ PruneStep) => DeliveredSome(Returned(c, ok))]_vars
    /\ [][\A c \in cycles, ok \in BOOLEAN :
            (Resume(c, ok) /\ ~DeliveredSome(Returned(c, ok))) => gathers' = gathers]_vars
    /\ [][(/\ Len(history') > Len(history)
           /\ history'[Len(history')].e = "end"
           /\ history'[Len(history')].outcome = "no-target") => gathers' = gathers]_vars


\* ------------------------------------------------------------------------
\* Week after week: the scheduled run of every Monday 09:00 with a webhook,
\* and the messages stored in between.  The ticks are 60 s apart from the
\* start of the process and each may be late, so from one week to the next
\* the tick of the slot's minute falls earlier or later within the minute
\* (a restart of the process moves it as well).  The weeks are counted
\* from the Monday of the slot at hand: when a week has gone by, the rows and
\* the marker are a week older, and the rows older than any window to come
\* (older than the slot's minute less seven days) are held at one age.

\* Line 513: the pause after a batch is posted to the webhook.
WEBHOOK_PAUSE_MS == 200
\* Where in the slot's minute its tick falls, in ms.
Phases == {0, 1000}
ThisSlot == FirstSlot + SEVEN_DAYS_MS
Stale == FirstSlot - 1
WeekOlder(r) ==
    [r EXCEPT !.ts = IF r.ts - SEVEN_DAYS_MS < Stale THEN Stale ELSE r.ts - SEVEN_DAYS_MS]
WeeklyTexts == {<<Mention("U1", 17)>> \o CoreBody}
WeeklyMessages ==
    {[id |-> i, channelId |-> listenChannelId, content |-> t, embeds |-> <<>>] :
        i \in {"m1", "m2"}, t \in WeeklyTexts}

WeeklyInit ==
    /\ \E phase \in Phases : now = ThisSlot + phase /\ due = ThisSlot + phase
    /\ advances = 0
    /\ gathers = messageCreateResult({}, ThisSlot - HOUR_MS,
                    [id |-> "m-hour", channelId |-> listenChannelId,
                     content |-> <<Mention("U2", 20)>> \o CoreBody, embeds |-> <<>>]).rows
    /\ metaSchedule = NoSchedule
    /\ metaLastReportDate = NoDate
    /\ subscribers = {}
    /\ webhook = TRUE
    /\ cycles = {}
    /\ nCycles = 0
    /\ history = <<>>

WeeklyMessage == \E message \in WeeklyMessages : MessageCreate(message)
WeeklyTime == now + WEBHOOK_PAUSE_MS <= due + TimerDelay /\ Elapse(WEBHOOK_PAUSE_MS)
\* The run goes on; after a POST has returned it has paused before it posts
\* again or prunes.
WeeklyGoesOn ==
    \E c \in cycles, ok \in BOOLEAN :
        /\ c.pc = "webhook" =>
             now >= c.since_ts + SEVEN_DAYS_MS + WEBHOOK_PAUSE_MS * Len(c.sent)
        /\ Resume(c, ok)
\* The ticks of the week that are outside the slot's minute do nothing
\* (lines 577-580); the next tick is the one of the slot's minute.
WeekGoesBy ==
    /\ cycles = {}
    /\ metaLastReportDate = Today
    /\ \E phase \in Phases : now' = ThisSlot + phase /\ due' = ThisSlot + phase
    /\ advances' = 0
    /\ gathers' = {WeekOlder(r) : r \in gathers}
    /\ metaLastReportDate' = DateStr(getTorontoDateParts(now - SEVEN_DAYS_MS))
    /\ nCycles' = 0
    /\ history' = <<>>
    /\ UNCHANGED <<metaSchedule, subscribers, webhook, cycles>>

WeeklyNext == Tick \/ WeeklyGoesOn \/ WeeklyMessage \/ WeeklyTime \/ WeekGoesBy
\* The timer fires, the awaited calls return, and the weeks go by.
WeeklySpec ==
    /\ WeeklyInit /\ [][WeeklyNext]_vars
    /\ WF_vars(Tick) /\ WF_vars(WeeklyGoesOn) /\ WF_vars(WeeklyTime) /\ WF_vars(WeekGoesBy)

\* C29: with a scheduled run completing, prune included, at every weekly
\* slot, every stored event is covered by a run in the end: a row that is in
\* the ledger is removed from it by the run of this slot or of the next.
C29_EveryEventCovered ==
    \A id \in {"m1", "m2"} : IdStored(id) ~> ~IdStored(id)


====
